---- MODULE Spec2Model ----
(***************************************************************************)
(* A model of the GroupChatZone plugin (src/plugins/groupchatzone):        *)
(* the dispatch job send_site_messages with its run guard and execution    *)
(* window, the per-message retry loop of send_message_to_site, and the     *)
(* schedule resolver get_service / _configure_cron_service.                *)
(* The SiteChatRoom plugin (src/plugins/sitechatroom) is modelled beside   *)
(* it in the variable room: its get_service and send_chat_messages.        *)
(*                                                                         *)
(* Text is modelled as a sequence of one-character strings, so that        *)
(* strip, split, count, int() and float() are computed, not assumed.       *)
(* A float is held in hundredths (2.5 hours is 250).  An Optional value    *)
(* is held as a sequence: << >> for None and <<v>> for a value v.          *)
(***************************************************************************)
EXTENDS Integers, Sequences, FiniteSets, TLC

VARIABLES
    enabled,                \* self._enabled
    cron,                   \* self._cron (text)
    onlyonce,               \* self._onlyonce
    notify,                 \* self._notify
    interval_cnt,           \* self._interval_cnt
    chat_sites,             \* self._chat_sites (sequence of site ids)
    sites_messages,         \* self._sites_messages (text)
    start_time,             \* self._start_time (Optional int)
    end_time,               \* self._end_time (Optional int)
    lock,                   \* self._lock: << >> when free, <<holder>> when held
    running,                \* self._running
    parsed_messages_cache,  \* self._parsed_messages_cache: sequence of <<name, messages>>
    last_parse_time,        \* self._last_parse_time
    scheduler,              \* self._scheduler: "none", "pending" (started, its job not yet run), "started"
    saved_config,           \* the configuration store's document for this plugin
    registry,               \* the site registry: the ids of the sites that exist
    now,                    \* time.time(), in seconds
    service,                \* the last get_service call: what it returned or that it raised, and the self._cron it read
    pc,                     \* per job thread: its position in send_site_messages, or how its call returned
    loc,                    \* per job thread: the locals of its invocation
    snd,                    \* one send_message_to_site call, request by request
    room,                   \* the SiteChatRoom instance: its attributes, the last get_service and the last send_chat_messages
    life,                   \* one plugin instance: its run-once switch, its persisted configuration, its schedulers
    lucky,                  \* the LuckyHelper instance and its backup directory
    zhuque                  \* the ZhuqueHelper instance and its execution history

vars == << enabled, cron, onlyonce, notify, interval_cnt, chat_sites, sites_messages,
           start_time, end_time, lock, running, parsed_messages_cache, last_parse_time,
           scheduler, saved_config, registry, now, service,
           pc, loc, snd, room, life, lucky, zhuque >>

\* The instances of the other plugins.
others == << life, lucky, zhuque >>

\* The plugin's configuration attributes, and the rest of its attributes.
cfgvars == << enabled, cron, onlyonce, notify, interval_cnt, chat_sites, sites_messages >>

----------------------------------------------------------------------------
(* Text helpers: Python's str.strip, str.count, str.split, int and float.  *)

Digits == {"0", "1", "2", "3", "4", "5", "6", "7", "8", "9"}

Whitespace == {" ", "\n"}

DigitVal(c) ==
    CASE c = "0" -> 0 [] c = "1" -> 1 [] c = "2" -> 2 [] c = "3" -> 3 [] c = "4" -> 4
      [] c = "5" -> 5 [] c = "6" -> 6 [] c = "7" -> 7 [] c = "8" -> 8 [] c = "9" -> 9

RECURSIVE LStrip(_)
LStrip(s) ==
    IF s = << >> THEN s
    ELSE IF Head(s) \in Whitespace THEN LStrip(Tail(s)) ELSE s

RECURSIVE RStrip(_)
RStrip(s) ==
    IF s = << >> THEN s
    ELSE IF s[Len(s)] \in Whitespace THEN RStrip(SubSeq(s, 1, Len(s) - 1)) ELSE s

\* str.strip()
Strip(s) == RStrip(LStrip(s))

\* str.count(c) for a one-character c
Count(s, c) == Cardinality({i \in 1..Len(s) : s[i] = c})

\* str.split(c) for a one-character c: always at least one piece
RECURSIVE Split(_, _)
Split(s, c) ==
    IF \A i \in 1..Len(s) : s[i] # c THEN << s >>
    ELSE LET k == CHOOSE i \in 1..Len(s) : s[i] = c /\ \A j \in 1..(i - 1) : s[j] # c
         IN  << SubSeq(s, 1, k - 1) >> \o Split(SubSeq(s, k + 1, Len(s)), c)

AllDigits(s) == \A i \in 1..Len(s) : s[i] \in Digits

RECURSIVE DecVal(_)
DecVal(s) == IF s = << >> THEN 0 ELSE 10 * DecVal(SubSeq(s, 1, Len(s) - 1)) + DigitVal(s[Len(s)])

Unsigned(t) == IF t # << >> /\ Head(t) = "-" THEN Tail(t) ELSE t

Sign(t) == IF t # << >> /\ Head(t) = "-" THEN -1 ELSE 1

\* int(s): the text stripped, an optional sign, then one or more digits;
\* anything else raises ValueError (ok = FALSE).
ParseInt(s) ==
    LET t == Strip(s)
        u == Unsigned(t)
    IN  IF u # << >> /\ AllDigits(u)
        THEN [ok |-> TRUE, val |-> Sign(t) * DecVal(u)]
        ELSE [ok |-> FALSE, val |-> 0]

\* The first two fraction digits, as hundredths.
Hundredths(f) ==
    IF Len(f) = 0 THEN 0
    ELSE IF Len(f) = 1 THEN 10 * DigitVal(f[1])
    ELSE 10 * DigitVal(f[1]) + DigitVal(f[2])

\* float(s), in hundredths: the text stripped, an optional sign, digits with
\* at most one point and at least one digit; anything else raises ValueError.
ParseFloat(s) ==
    LET t == Strip(s)
        u == Unsigned(t)
        p == Split(u, ".")
        ip == p[1]
        fp == IF Len(p) = 2 THEN p[2] ELSE << >>
    IN  IF /\ Len(p) <= 2
           /\ AllDigits(ip) /\ AllDigits(fp)
           /\ Len(ip) + Len(fp) > 0
        THEN [ok |-> TRUE, val |-> Sign(t) * (100 * DecVal(ip) + Hundredths(fp))]
        ELSE [ok |-> FALSE, val |-> 0]

----------------------------------------------------------------------------
(* The schedule resolver: get_service and _configure_cron_service.         *)

DefaultStart == 9

DefaultEnd == 23

DefaultIntervalHours == 2

MinIntervalTenths == 1

RandomBeginHour == 9

RandomMinInterval == 120

RandomMaxInterval == 360

\* One field of a crontab expression as CronTrigger.from_crontab reads it,
\* for the forms "*", "N", "*/N" and "N-M" with the field's value range.
CronFieldOk(f, lo, hi) ==
    LET InRange(x) == x # << >> /\ AllDigits(x) /\ lo <= DecVal(x) /\ DecVal(x) <= hi
        sl == Split(f, "/")
        da == Split(f, "-")
    IN  \/ f = << "*" >>
        \/ InRange(f)
        \/ Len(sl) = 2 /\ sl[1] = << "*" >> /\ sl[2] # << >> /\ AllDigits(sl[2]) /\ DecVal(sl[2]) >= 1
        \/ Len(da) = 2 /\ InRange(da[1]) /\ InRange(da[2]) /\ DecVal(da[1]) <= DecVal(da[2])

\* CronTrigger.from_crontab(expr) returns a trigger (TRUE) or raises ValueError (FALSE):
\* exactly five whitespace-separated fields, each valid for its position.
FromCrontabOk(expr) ==
    LET f == SelectSeq(Split(Strip(expr), " "), LAMBDA x : x # << >>)
    IN  /\ Len(f) = 5
        /\ CronFieldOk(f[1], 0, 59)
        /\ CronFieldOk(f[2], 0, 23)
        /\ CronFieldOk(f[3], 1, 31)
        /\ CronFieldOk(f[4], 1, 12)
        /\ CronFieldOk(f[5], 0, 6)

IntervalJob(hours) ==
    << [id |-> "GroupChatZone", trigger |-> "interval", hours |-> hours, expr |-> << >>] >>

CrontabJob(expr) ==
    << [id |-> "GroupChatZone", trigger |-> "crontab", hours |-> 0, expr |-> expr] >>

\* A bare number taken as it is, however small.
SimpleIntervalUnclamped(c, st, en) ==
    LET f == ParseFloat(Strip(c))
        hours == IF f.val <= 0 THEN 100 * DefaultIntervalHours ELSE f.val
    IN  IF f.ok
        THEN [raised |-> FALSE, form |-> "simple", jobs |-> IntervalJob(hours),
              start |-> st, end |-> en]
        ELSE [raised |-> FALSE, form |-> "unparsed", jobs |-> << >>,
              start |-> st, end |-> en]

\* Lines 257-282: the bare number, then the empty list.  st and en are the
\* values self._start_time and self._end_time hold when this part is reached.
SimpleInterval(c, st, en) ==
    LET f == ParseFloat(Strip(c))
        hours == IF f.val <= 0 THEN 100 * DefaultIntervalHours
                 ELSE IF f.val < 10 * MinIntervalTenths THEN 10 * MinIntervalTenths
                 ELSE f.val
    IN  IF f.ok
        THEN [raised |-> FALSE, form |-> "simple", jobs |-> IntervalJob(hours),
              start |-> st, end |-> en]
        ELSE [raised |-> FALSE, form |-> "unparsed", jobs |-> << >>,
              start |-> st, end |-> en]

\* Lines 238-242: a start or an end outside 0..23 replaces both by 9 and 23.
ValidatedWindow(a, b) ==
    IF 0 <= a /\ a <= 23 /\ 0 <= b /\ b <= 23
    THEN [start |-> << a >>, end |-> << b >>]
    ELSE [start |-> << DefaultStart >>, end |-> << DefaultEnd >>]

\* Lines 226-255: "<hours>/<start>-<end>".  A ValueError leaves what was
\* assigned before it and falls through to the bare number.
CustomInterval(c, st, en) ==
    LET crons == Split(Strip(c), "/")
        ih == ParseFloat(Strip(crons[1]))
        times == Split(crons[2], "-")
        a == ParseInt(Strip(times[1]))
        b == ParseInt(Strip(times[2]))
        w == ValidatedWindow(a.val, b.val)
    IN  IF Len(crons) # 2 THEN SimpleInterval(c, st, en)
        ELSE IF ~ih.ok THEN SimpleInterval(c, st, en)
        ELSE IF Len(times) # 2 THEN SimpleInterval(c, st, en)
        ELSE IF ~a.ok THEN SimpleInterval(c, st, en)
        ELSE IF ~b.ok THEN SimpleInterval(c, << a.val >>, en)
        ELSE [raised |-> FALSE, form |-> "window", jobs |-> IntervalJob(ih.val),
              start |-> w.start, end |-> w.end]

\* _configure_cron_service, lines 209-282, for self._cron = c.
ConfigureCronService(c, st, en) ==
    IF Count(Strip(c), " ") = 4
    THEN IF FromCrontabOk(c)
         THEN [raised |-> FALSE, form |-> "cron", jobs |-> CrontabJob(c),
               start |-> st, end |-> en]
         ELSE [raised |-> TRUE, form |-> "cron", jobs |-> << >>,
               start |-> st, end |-> en]
    ELSE CustomInterval(c, st, en)

\* _configure_random_service, lines 284-313, with TimerUtils.random_scheduler
\* (num_executions = 1) picking an offset of `minutes` after 9:00.
ConfigureRandomService(minutes) ==
    LET h == RandomBeginHour + (minutes \div 60)
        m == minutes % 60
    IN  [raised |-> FALSE, form |-> "random",
         jobs |-> << [id |-> "GroupChatZone|random", trigger |-> "cron",
                      hours |-> 0, expr |-> << h, m >>] >>]

\* A get_service without its except clause: what was raised goes on to the caller.
GetServiceNoExcept(r) == r

\* Lines 203-207 of get_service: an exception raised while resolving is logged
\* and the empty list returned.
GetServiceExcept(r) == IF r.raised THEN [r EXCEPT !.raised = FALSE, !.jobs = << >>] ELSE r

\* A resolver that registers nothing when no schedule is configured.
GetServiceResultNoDefault(minutes) ==
    IF ~enabled
    THEN [raised |-> FALSE, form |-> "disabled", jobs |-> << >>,
          start |-> start_time, end |-> end_time]
    ELSE IF cron # << >>
    THEN GetServiceExcept(ConfigureCronService(cron, start_time, end_time))
    ELSE [raised |-> FALSE, form |-> "random", jobs |-> << >>,
          start |-> start_time, end |-> end_time]

\* get_service, lines 190-207: what it returns, and what the call leaves in
\* self._start_time and self._end_time.
GetServiceResult(minutes) ==
    IF ~enabled
    THEN [raised |-> FALSE, form |-> "disabled", jobs |-> << >>,
          start |-> start_time, end |-> end_time]
    ELSE IF cron # << >>
    THEN GetServiceExcept(ConfigureCronService(cron, start_time, end_time))
    ELSE LET r == GetServiceExcept(ConfigureRandomService(minutes))
         IN  [raised |-> r.raised, form |-> r.form, jobs |-> r.jobs,
              start |-> start_time, end |-> end_time]

\* A window check that forgets the start of the window.
WindowAllowsUpToEnd(st, en, h) ==
    ~(st # << >> /\ en # << >>) \/ h <= en[1]

\* Lines 544-548 of send_site_messages: whether an invocation at hour h passes
\* the window check.
WindowAllows(st, en, h) ==
    ~(st # << >> /\ en # << >>) \/ (st[1] <= h /\ h <= en[1])

----------------------------------------------------------------------------
(* The site registry and one send_message_to_site call.                    *)

\* The sites the registry can hold (SitesHelper.get_indexers plus the custom
\* sites): id -> name, url, cookie and user agent.  Site 4 has a blank cookie.
SiteIds == {1, 2, 3, 4}

\* An id the page still holds of a site the registry no longer has.
StaleId == CHOOSE id \in 1..(Cardinality(SiteIds) + 1) : id \notin SiteIds

SiteInfo(id) ==
    CASE id = 1 -> [id |-> 1, name |-> << "A" >>, scheme |-> "https", host |-> << "a" >>,
                    cookie |-> << "c" >>, ua |-> << "u" >>]
      [] id = 2 -> [id |-> 2, name |-> << "B" >>, scheme |-> "http", host |-> << "b" >>,
                    cookie |-> << "c" >>, ua |-> << "u" >>]
      [] id = 3 -> [id |-> 3, name |-> << "C" >>, scheme |-> "https", host |-> << "c" >>,
                    cookie |-> << "c" >>, ua |-> << "u" >>]
      [] id = 4 -> [id |-> 4, name |-> << "D" >>, scheme |-> "https", host |-> << "d" >>,
                    cookie |-> << " " >>, ua |-> << "u" >>]

\* What one HTTP request can come back with: a status, or an exception of
\* requests (ConnectionError, Timeout, another RequestException).
Responses == {"200", "401", "503", "conn", "timeout", "reqexc"}

\* Retry(total=3, status_forcelist=[403, 404, 500, 502, 503, 504]), line 828-834
RetryTotal == 3

StatusForcelist == {"403", "404", "500", "502", "503", "504"}

\* What the mounted HTTPAdapter retries inside one session.get: a status of the
\* forcelist, a connection error, a read timeout.
TransportRetries(r) == r \in StatusForcelist \cup {"conn", "timeout"}

\* session.mount('https://', adapter), line 842: only an https URL goes
\* through the retrying adapter.
Mounted(site) == site.scheme = "https"

\* max_attempts, line 845
MaxAttempts == 3

RECURSIVE Pow2(_)
Pow2(n) == IF n <= 0 THEN 1 ELSE 2 * Pow2(n - 1)

\* backoff_time, line 867
BackoffTime(attempt) == 1 * Pow2(attempt - 1)

SndIdle ==
    [pc |-> "idle", site |-> 0, attempt |-> 0, inner |-> 0, requests |-> 0,
     sleeps |-> << >>, retried_on |-> {}, last |-> "none"]

\* Lines 801-812: the site information check before any request.
MissingInfo(site) ==
    \/ Strip(site.name) = << >>
    \/ site.scheme = "" \/ Strip(site.host) = << >>
    \/ Strip(site.cookie) = << >>
    \/ Strip(site.ua) = << >>

\* Lines 801-845: up to the first pass of the loop.
SndStart(site) ==
    IF MissingInfo(site)
    THEN [SndIdle EXCEPT !.pc = "raised", !.site = site.id]
    ELSE [SndIdle EXCEPT !.pc = "request", !.site = site.id]

\* What the loop of lines 846-874 does with the result r of one session.get
\* call: return, or count the attempt, back off and go round, or raise.
LoopOutcome(s, r) ==
    IF r = "200"
    THEN [s EXCEPT !.pc = "returned", !.last = r]
    ELSE IF s.attempt + 1 < MaxAttempts
    THEN [s EXCEPT !.pc = "request", !.last = r, !.attempt = s.attempt + 1, !.inner = 0,
                   !.sleeps = Append(s.sleeps, BackoffTime(s.attempt + 1)),
                   !.retried_on = s.retried_on \cup {r}]
    ELSE [s EXCEPT !.pc = "raised", !.last = r, !.attempt = s.attempt + 1]

\* One HTTP request answered by r, lines 848-871: inside session.get the
\* mounted adapter sends the request again while it has retries left; what
\* session.get finally returns or raises goes to the loop.
SndRequest(s, r) ==
    LET t == [s EXCEPT !.requests = s.requests + 1]
    IN  IF Mounted(SiteInfo(s.site)) /\ TransportRetries(r) /\ s.inner < RetryTotal
        THEN [t EXCEPT !.inner = s.inner + 1]
        ELSE LoopOutcome(t, r)

\* A whole call against a site that answers every request with r.
RECURSIVE Drive(_, _)
Drive(s, r) == IF s.pc = "request" THEN Drive(SndRequest(s, r), r) ELSE s

\* send_message_to_site(site, message) when every request is answered by r:
\* TRUE for (True, ...) returned, FALSE for MessageSendError raised.
SendMessageToSite(site, r) == Drive(SndStart(site), r).pc = "returned"

----------------------------------------------------------------------------
(* parse_site_messages and the bookkeeping of __send_msgs.                 *)

\* A dict as a sequence of <<key, value>> pairs in insertion order.
Get(d, k) ==
    LET hits == SelectSeq(d, LAMBDA e : e[1] = k)
    IN  IF hits = << >> THEN << >> ELSE hits[1][2]

Put(d, k, v) ==
    IF \E i \in 1..Len(d) : d[i][1] = k
    THEN [i \in 1..Len(d) |-> IF d[i][1] = k THEN << k, v >> ELSE d[i]]
    ELSE Append(d, << k, v >>)

\* Lines 596-602: the names of the selected sites the registry knows.
SelectedSiteNames(chat, reg) ==
    {SiteInfo(chat[i]).name : i \in {j \in 1..Len(chat) : chat[j] \in reg}}

\* A line parser that does not ask whether the site is selected.
ParseLineAnySite(result, line, selected) ==
    LET parts == Split(line, "|")
        site_name == Strip(parts[1])
        stripped == [i \in 1..(Len(parts) - 1) |-> Strip(parts[i + 1])]
        messages == SelectSeq(stripped, LAMBDA m : m # << >>)
    IN  IF Strip(line) = << >> THEN result
        ELSE IF Len(parts) > 1 /\ messages # << >>
        THEN Put(result, site_name, messages)
        ELSE result

\* Lines 612-630: one line "name|msg1|msg2|...".
ParseLine(result, line, selected) ==
    LET parts == Split(line, "|")
        site_name == Strip(parts[1])
        stripped == [i \in 1..(Len(parts) - 1) |-> Strip(parts[i + 1])]
        messages == SelectSeq(stripped, LAMBDA m : m # << >>)
    IN  IF Strip(line) = << >> THEN result
        ELSE IF Len(parts) > 1 /\ site_name \in selected /\ messages # << >>
        THEN Put(result, site_name, messages)
        ELSE result

RECURSIVE ParseLines(_, _, _)
ParseLines(result, lines, selected) ==
    IF lines = << >> THEN result
    ELSE ParseLines(ParseLine(result, Head(lines), selected), Tail(lines), selected)

\* parse_site_messages, lines 582-649.
ParseSiteMessages(text, chat, reg) ==
    IF text = << >> THEN << >>
    ELSE IF SelectedSiteNames(chat, reg) = {} THEN << >>
    ELSE ParseLines(<< >>, Split(Strip(text), "\n"), SelectedSiteNames(chat, reg))

\* A filter that lets every id through.
FilterSitesKeepsAll(chat, reg) == chat

\* _validate_and_filter_sites, lines 1050-1063 (and lines 663-669 of __send_msgs):
\* the ids the registry knows, in their order.
FilterSites(chat, reg) == SelectSeq(chat, LAMBDA id : id \in reg)

\* The cache test of line 565.
CacheStale(cache, parsed_at, t) == cache = << >> \/ t - parsed_at > 300

\* A clamp without its lower end.
ClampIntervalAbove(n) == IF n < 10 THEN n ELSE 10

\* Lines 109-111 and 725: the interval clamped to 1..10 seconds.
ClampInterval(n) ==
    LET lo == IF n < 10 THEN n ELSE 10
    IN  IF lo > 1 THEN lo ELSE 1

\* A lookup that gives every site the messages of the run's first site.
MessagesAtOfFirst(l, i) == Get(l.site_msgs, SiteInfo(l.todo[1]).name)

\* The messages of the site at position i of the run's site list.
MessagesAt(l, i) == Get(l.site_msgs, SiteInfo(l.todo[i]).name)

\* Lines 680-688: the next site from position i on that has messages
\* (Len + 1 when there is none).
RECURSIVE NextSite(_, _)
NextSite(l, i) ==
    IF i > Len(l.todo) THEN i
    ELSE IF MessagesAt(l, i) # << >> THEN i
    ELSE NextSite(l, i + 1)

EmptyLoc ==
    [hour |-> << >>, window |-> << >>,
     do_sites |-> << >>, all_sites |-> {},
     parsed |-> << >>, current_time |-> 0, at_start |-> << >>,
     site_msgs |-> << >>, todo |-> << >>, si |-> 0, mi |-> 0,
     success_count |-> 0, failure_count |-> 0, failed_messages |-> << >>,
     site_results |-> << >>, total_success |-> 0, total_failure |-> 0,
     log |-> << >>, posted |-> << >>, exc |-> "none"]

\* Where the thread goes once the site at position i is the next candidate.
EnterSite(l, i) ==
    [l EXCEPT !.si = NextSite(l, i), !.mi = 1,
              !.success_count = 0, !.failure_count = 0, !.failed_messages = << >>]

\* A sleep test that is off by one.
SleepsAfterOffByOne(mi, n) == mi - 1 < n - 2

\* Line 724: after message number mi (from 1) of n, is there a sleep?
SleepsAfter(mi, n) == mi - 1 < n - 1

\* Handlers that count a failure without keeping its message.
RecordFailureCountOnly(failed, message, ok) == failed

\* Lines 713-722: the failed-message list after one dispatch.
RecordFailure(failed, message, ok) == IF ok THEN failed ELSE Append(failed, message)

\* Lines 695-736 for one message: the dispatch, its bookkeeping, and after the
\* last message of the site the site's result.  ok is what send_message_to_site
\* gave (FALSE: it raised).
AfterSend(l, ok) ==
    LET site == SiteInfo(l.todo[l.si])
        messages == MessagesAt(l, l.si)
        message == messages[l.mi]
        fm == RecordFailure(l.failed_messages, message, ok)
        sc == IF ok THEN l.success_count + 1 ELSE l.success_count
        fc == IF ok THEN l.failure_count ELSE l.failure_count + 1
        l1 == [l EXCEPT !.success_count = sc, !.failure_count = fc, !.failed_messages = fm,
                        !.total_success = IF ok THEN @ + 1 ELSE @,
                        !.total_failure = IF ok THEN @ ELSE @ + 1,
                        !.log = Append(@, [k |-> "send", site |-> site.id, msg |-> message,
                                           ok |-> ok, secs |-> 0])]
    IN  IF SleepsAfter(l.mi, Len(messages))
        THEN l1
        ELSE EnterSite([l1 EXCEPT !.site_results =
                            Put(@, site.name, [success_count |-> sc, failure_count |-> fc,
                                               failed_messages |-> fm])],
                       l.si + 1)

----------------------------------------------------------------------------
(* The SiteChatRoom plugin (src/plugins/sitechatroom): its schedule        *)
(* resolver get_service and its job send_chat_messages.                    *)

\* Lines 67-75: the instance as constructed, with no run-once job pending,
\* nothing resolved and no invocation yet.  sent is the last send_chat_messages invocation: its hour,
\* its event, the self._cron, self._start_time and self._end_time it ran
\* under, and the messages it dispatched, in order, as <<site id, message>>.
RoomInit ==
    [enabled |-> FALSE, cron |-> << >>, chat_sites |-> << >>, site_messages |-> << >>,
     start_time |-> << >>, end_time |-> << >>,
     once |-> FALSE, jobs |-> << >>, sent |-> << >>]

RoomIntervalJob(hours) ==
    << [id |-> "SiteChatRoom", trigger |-> "interval", hours |-> hours, expr |-> << >>] >>

RoomCrontabJob(expr) ==
    << [id |-> "SiteChatRoom", trigger |-> "crontab", hours |-> 0, expr |-> expr] >>

\* Lines 214-233: one cron job per trigger of TimerUtils.random_scheduler.
RoomRandomJobs(triggers) ==
    [i \in 1..Len(triggers) |->
        [id |-> "SiteChatRoom|random", trigger |-> "cron", hours |-> 0, expr |-> triggers[i]]]

\* Python's truth of an Optional int: None and 0 are false.
Truthy(o) == o # << >> /\ o[1] # 0

\* get_service, lines 166-234, for the instance r: the jobs it returns and
\* what the call leaves in self._start_time and self._end_time.  An exception
\* (int, float or from_crontab raising ValueError) is logged and the empty
\* list returned, with what was assigned before it kept.
RoomGetService(r, triggers) ==
    LET c == r.cron
        keep == [jobs |-> << >>, start_time |-> r.start_time, end_time |-> r.end_time]
        crons == Split(Strip(c), "/")
        times == Split(crons[2], "-")
        a == ParseInt(times[1])
        b == ParseInt(times[2])
        st == IF Len(times) = 2 THEN << a.val >> ELSE r.start_time
        en == IF Len(times) = 2 THEN << b.val >> ELSE r.end_time
        h == ParseFloat(Strip(crons[1]))
        f == ParseFloat(Strip(c))
    IN  IF r.enabled /\ c # << >>
        THEN IF Count(Strip(c), " ") = 4
             THEN [keep EXCEPT !.jobs = IF FromCrontabOk(c) THEN RoomCrontabJob(c) ELSE << >>]
             ELSE IF Len(crons) = 2
             THEN IF Len(times) = 2 /\ ~a.ok THEN keep
                  ELSE IF Len(times) = 2 /\ ~b.ok THEN [keep EXCEPT !.start_time = << a.val >>]
                  ELSE [jobs |-> IF Truthy(st) /\ Truthy(en) /\ h.ok
                                 THEN RoomIntervalJob(h.val) ELSE << >>,
                        start_time |-> st, end_time |-> en]
             ELSE [keep EXCEPT !.jobs = IF f.ok THEN RoomIntervalJob(f.val) ELSE << >>]
        ELSE IF r.enabled THEN [keep EXCEPT !.jobs = RoomRandomJobs(triggers)]
        ELSE keep

\* Lines 467-479: message_dict.get(str_site_id), the messages of the last
\* line "name|m1|m2" whose name is the site's; << >> when there is none.
RoomMessagesFor(lines, id) ==
    LET Parts(i) == Split(Strip(lines[i]), "|")
        hits == {i \in 1..Len(lines) : Len(Parts(i)) > 1 /\ Parts(i)[1] = SiteInfo(id).name}
    IN  IF hits = {} THEN << >>
        ELSE Tail(Parts(CHOOSE i \in hits : \A j \in hits : j <= i))

\* __send_messages_to_site, lines 490-524: nothing for a site without url or
\* cookie, else every message in order, a failed one not stopping the next.
RoomSendMessagesToSite(id, messages) ==
    IF SiteInfo(id).host = << >> \/ SiteInfo(id).cookie = << >> THEN << >>
    ELSE [i \in 1..Len(messages) |-> << id, messages[i] >>]

\* The loop of send_chat_messages, lines 459-485, over the selected sites:
\* a site the registry does not have, or one without messages, is skipped.
RECURSIVE RoomDispatch(_, _, _)
RoomDispatch(sites, lines, reg) ==
    IF sites = << >> THEN << >>
    ELSE LET id == Head(sites)
             messages == IF id \in reg THEN RoomMessagesFor(lines, id) ELSE << >>
         IN  RoomSendMessagesToSite(id, messages) \o RoomDispatch(Tail(sites), lines, reg)

\* send_chat_messages, lines 432-488, called with no event ("none"), with the
\* command event of its own action or with an event of another action: the
\* messages it dispatches.  Neither the hour of the call nor self._start_time
\* and self._end_time are read.
RoomSendChatMessages(r, ev, reg) ==
    IF ev = "other" THEN << >>
    ELSE RoomDispatch(r.chat_sites, r.site_messages, reg)

\* Lines 100-103 of init_plugin: the selected ids the registry has, in the
\* registry's order.
RoomFilterSites(chat, reg) ==
    LET RECURSIVE Ordered(_)
        Ordered(n) == IF n = 0 THEN << >>
                      ELSE Ordered(n - 1) \o
                           (IF n \in reg /\ \E k \in 1..Len(chat) : chat[k] = n
                            THEN << n >> ELSE << >>)
    IN  Ordered(Cardinality(SiteIds))

----------------------------------------------------------------------------
(* init_plugin and stop_service of every plugin, as far as the run-once    *)
(* switch, the persisted configuration and the plugin's own scheduler go.  *)

Plugins ==
    { "GroupChatZone", "SiteChatRoom", "SiteMessenger", "StationCall",
      "LuckyHelper", "ZhuqueHelper", "ZhuquSignin" }

\* A plugin instance as constructed: the class attributes, no scheduler, and
\* nothing persisted.  cron says whether a schedule text is configured.
\* Every BackgroundScheduler the instance creates gets the next number:
\* started holds those that are running, pending those whose run-once job
\* has not fired yet; runs counts the run-once jobs scheduled; raised says
\* that the last init_plugin ended in an exception.
LifeNew(p) ==
    [plugin |-> p, enabled |-> FALSE, cron |-> FALSE, onlyonce |-> FALSE,
     scheduler |-> 0, stored |-> << >>,
     made |-> 0, started |-> {}, pending |-> {}, runs |-> 0, raised |-> FALSE,
     last |-> "new"]

LifeConfig(en, cr, once) == [enabled |-> en, cron |-> cr, onlyonce |-> once]

\* A stop_service that drops the scheduler without shutting it down.
StopSchedulerDropOnly(l) == [l EXCEPT !.scheduler = 0]

\* stop_service (GroupChatZone lines 999-1012, and alike in every plugin):
\* the scheduler the instance holds loses its jobs, is shut down and dropped.
StopScheduler(l) ==
    IF l.scheduler = 0 THEN l
    ELSE [l EXCEPT !.started = @ \ {l.scheduler}, !.pending = @ \ {l.scheduler},
                   !.scheduler = 0]

\* "if config:" and the assignments under it; config is << >> for None.
TakeConfig(l, config) ==
    IF config = << >> THEN l
    ELSE [l EXCEPT !.enabled = config[1].enabled, !.cron = config[1].cron,
                   !.onlyonce = config[1].onlyonce]

\* self._scheduler = BackgroundScheduler(...), a job added, start().
NewScheduler(l, once) ==
    [l EXCEPT !.made = @ + 1, !.scheduler = l.made + 1,
              !.started = @ \cup {l.made + 1},
              !.pending = IF once THEN @ \cup {l.made + 1} ELSE @,
              !.runs = IF once THEN @ + 1 ELSE @]

\* The run-once job is scheduled, the switch turned off, and a document
\* saved: one with the attributes as they are now, or the one given.
RunOnce(l, attributes, config) ==
    LET l1 == [NewScheduler(l, TRUE) EXCEPT !.onlyonce = FALSE]
    IN  [l1 EXCEPT !.stored = IF attributes
                              THEN << LifeConfig(l1.enabled, l1.cron, l1.onlyonce) >>
                              ELSE config]

\* GroupChatZone.init_plugin, lines 94-147, and SiteChatRoom.init_plugin,
\* lines 77-130: __update_config after the configuration is taken, and
\* again after the run-once job is scheduled.
InitPluginChat(l, config) ==
    LET l1 == TakeConfig(StopScheduler(l), config)
        l2 == IF config = << >> THEN l1
              ELSE [l1 EXCEPT !.stored = << LifeConfig(l1.enabled, l1.cron, l1.onlyonce) >>]
    IN  IF l2.onlyonce THEN RunOnce(l2, TRUE, config) ELSE l2

\* SiteMessenger.init_plugin, lines 38-62: only an enabled plugin schedules
\* the run, and update_config(config) saves the document it was given.
InitPluginSiteMessenger(l, config) ==
    LET l1 == TakeConfig(StopScheduler(l), config)
    IN  IF l1.enabled /\ l1.onlyonce THEN RunOnce(l1, FALSE, config) ELSE l1

\* LuckyHelper.init_plugin, lines 57-90, ZhuqueHelper.init_plugin, lines
\* 53-102, and ZhuquSignin.init_plugin, lines 53-92: update_config with
\* "onlyonce": False and the attributes.
InitPluginHelper(l, config) ==
    LET l1 == TakeConfig(StopScheduler(l), config)
    IN  IF l1.onlyonce THEN RunOnce(l1, TRUE, config) ELSE l1

\* StationCall.init_plugin, lines 56-105: all of it under "if config:".
\* The class has no method __backup, so with the switch on the lookup of
\* self.__backup at line 80 raises AttributeError out of init_plugin: the
\* scheduler of line 78 is held but has no job and is not started, the
\* switch stays on and nothing is saved.  Otherwise an enabled plugin with
\* a schedule starts a scheduler for it.
InitPluginStationCall(l, config) ==
    LET l1 == TakeConfig(StopScheduler(l), config)
    IN  IF config = << >> THEN l1
        ELSE IF l1.onlyonce
             THEN [l1 EXCEPT !.made = @ + 1, !.scheduler = l1.made + 1, !.raised = TRUE]
        ELSE IF l1.enabled /\ l1.cron THEN NewScheduler(l1, FALSE)
        ELSE l1

\* init_plugin of the plugin the instance belongs to.
LifeInitPlugin(l, config) ==
    LET l0 == [l EXCEPT !.raised = FALSE]
    IN  CASE l.plugin \in {"GroupChatZone", "SiteChatRoom"} -> InitPluginChat(l0, config)
          [] l.plugin = "SiteMessenger" -> InitPluginSiteMessenger(l0, config)
          [] l.plugin = "StationCall" -> InitPluginStationCall(l0, config)
          [] l.plugin \in {"LuckyHelper", "ZhuqueHelper", "ZhuquSignin"} -> InitPluginHelper(l0, config)

----------------------------------------------------------------------------
(* LuckyHelper: api_backup and __backup.                                   *)

\* settings.API_TOKEN of the host.
API_TOKEN == "token"

\* A backup file is the number of its creation time.  LuckyHelper as
\* constructed: no retention count, no notification; files are the files
\* matching bk**.zip in the backup directory; requests counts the requests
\* sent to the backup API, written the files written, removed lists the
\* files deleted, posted the notifications; reply is what the last
\* api_backup returned and key the apikey it was given; run describes the
\* last run of __backup.
LuckyInit ==
    [cnt |-> << >>, notify |-> FALSE, files |-> {}, ctime |-> 0,
     requests |-> 0, written |-> 0, removed |-> << >>, posted |-> << >>,
     calls |-> 0, key |-> "none", reply |-> "none", runs |-> 0, run |-> << >>]

\* sorted(files, key=os.path.getctime): oldest first.
RECURSIVE SortedByCtime(_)
SortedByCtime(S) ==
    IF S = {} THEN << >>
    ELSE LET oldest == CHOOSE f \in S : \A g \in S : f <= g
         IN  << oldest >> \o SortedByCtime(S \ {oldest})

\* How the request for the archive ends: get_jwt raises (no _secretKey on
\* the class; whether the base class has one is the host's), the request
\* gives no response, a status other than 200, or 200 with the archive.
LuckyOutcomes == {"jwt_raises", "no_response", "status_other", "status_200"}

\* Lines 112-142: the request and the file written; matches says whether
\* the name of the written file matches bk**.zip.
FetchBackup(l, outcome, matches) ==
    LET sent == [l EXCEPT !.requests = IF outcome = "jwt_raises" THEN @ ELSE @ + 1]
    IN  IF outcome = "status_200"
        THEN [sent EXCEPT !.written = @ + 1, !.ctime = @ + 1,
                          !.files = IF matches THEN @ \cup {l.ctime + 1} ELSE @]
        ELSE sent

\* Lines 144-163: the clean-up; gives bk_cnt, del_cnt and the files deleted.
CleanBackups(files, cnt) ==
    IF cnt = << >> THEN [bk_cnt |-> 0, del_cnt |-> 0, deleted |-> << >>]
    ELSE LET sorted == SortedByCtime(files)
             bk_cnt == Len(sorted)
             del_cnt == bk_cnt - cnt[1]
         IN  [bk_cnt |-> bk_cnt, del_cnt |-> del_cnt,
              deleted |-> IF del_cnt > 0 THEN SubSeq(sorted, 1, del_cnt) ELSE << >>]

\* Lines 165-172: the notification text.
BackupNotice(success, bk_cnt, del_cnt) ==
    [success |-> success, cleaned |-> del_cnt, left |-> bk_cnt - del_cnt]

\* __backup, lines 100-174.
Backup(l, outcome, matches) ==
    LET l1 == FetchBackup(l, outcome, matches)
        c == CleanBackups(l1.files, l1.cnt)
        gone == { c.deleted[i] : i \in 1..Len(c.deleted) }
    IN  [l1 EXCEPT !.files = @ \ gone,
                   !.removed = @ \o c.deleted,
                   !.posted = IF l1.notify
                              THEN Append(@, BackupNotice(outcome = "status_200", c.bk_cnt, c.del_cnt))
                              ELSE @,
                   !.runs = @ + 1,
                   !.run = << [present |-> l1.files, cnt |-> l1.cnt, deleted |-> c.deleted,
                               noticed |-> l1.notify] >>]

\* A check of the key that lets every key through.
KeyRefusedNever(apikey) == FALSE

\* Line 96: apikey != settings.API_TOKEN.
KeyRefused(apikey) == apikey # API_TOKEN

\* api_backup, lines 92-98.
ApiBackup(l, apikey, outcome, matches) ==
    LET called == [l EXCEPT !.calls = @ + 1, !.key = apikey]
    IN  IF KeyRefused(apikey) THEN [called EXCEPT !.reply = "refused"]
        ELSE [Backup(called, outcome, matches) EXCEPT !.reply = "backup"]

----------------------------------------------------------------------------
(* ZhuqueHelper: __signin and _save_execution_record.  Time is in days.    *)

\* ZhuqueHelper as constructed: no cookie, no notification, no history_days
\* (<< >> for None); history is the list stored under sign_dict, posted
\* counts the notifications, today is the clock, run describes the last run
\* of __signin.
ZhuqueInit ==
    [cookie |-> FALSE, notify |-> FALSE, history_days |-> << >>,
     history |-> << >>, posted |-> 0, today |-> 0, runs |-> 0, run |-> << >>]

\* What get_user_info returns: bonus and min_level, each possibly None.
UserInfos ==
    { [bonus |-> b, min_level |-> lv] : b \in {<< >>, << 100 >>}, lv \in {<< >>, << 5 >>} }

\* How far a run gets: the token or the user name is missing, a call raises,
\* the save raises, or nothing fails.
SigninCourses ==
    {"csrf_none", "csrf_raises", "username_none", "info_raises", "train_raises",
     "save_raises", "complete"}

\* Lines 237-241: the records that are kept.
RECURSIVE KeepRecent(_, _, _)
KeepRecent(history, history_days, clock) ==
    IF history = << >> THEN << >>
    ELSE (IF Head(history).date >= clock - history_days THEN << Head(history) >> ELSE << >>)
         \o KeepRecent(Tail(history), history_days, clock)

\* Lines 238-241: "if self._history_days:" is false for None and for 0.
CleanHistory(history, history_days, clock) ==
    IF history_days = << >> \/ history_days = << 0 >> THEN history
    ELSE KeepRecent(history, history_days[1], clock)

\* _save_execution_record, lines 218-245; raises says that reading or
\* saving the data raised, which is caught and logged.
SaveExecutionRecord(z, username, info, raises) ==
    LET sign_dict == [date |-> z.today, username |-> username,
                      bonus |-> info.bonus[1], min_level |-> info.min_level[1]]
        history == CleanHistory(Append(z.history, sign_dict), z.history_days, z.today)
    IN  IF raises THEN z ELSE [z EXCEPT !.history = history]

\* __signin, lines 104-162.
Signin(z, course, info) ==
    LET obtained == info.bonus # << >> /\ info.min_level # << >>
        reached == IF ~z.cookie THEN "no_cookie"
                   ELSE IF course \in {"csrf_none", "csrf_raises", "username_none",
                                       "info_raises", "train_raises"} THEN course
                   ELSE IF ~obtained THEN "info_none"
                   ELSE course
        saved == IF reached \in {"save_raises", "complete"}
                 THEN SaveExecutionRecord(z, "name", info, reached = "save_raises")
                 ELSE z
        noticed == reached \in {"save_raises", "complete"} /\ z.notify
    IN  [saved EXCEPT !.posted = IF noticed THEN @ + 1 ELSE @,
                      !.runs = @ + 1,
                      !.run = << [reached |-> reached, info |-> info] >>]

----------------------------------------------------------------------------
(* The plugin as a state machine.                                          *)

\* The job threads: the host scheduler's job registered by get_service, and
\* the run-once job of the plugin's own scheduler.
Threads == {"job", "once"}

\* Between acquiring and releasing the run guard.
Section == {"prepare", "call", "send", "sleep", "notify", "release"}

\* How a call of send_site_messages has returned.
Returned == {"skipped_window", "skipped_busy", "done", "caught", "propagated"}

Hours == {5, 9, 23}

\* Texts of the configuration page.
Line(name, msgs) ==
    LET RECURSIVE Bars(_)
        Bars(m) == IF m = << >> THEN << >> ELSE << "|" >> \o Head(m) \o Bars(Tail(m))
    IN  name \o Bars(msgs)

TextAB == Line(<< "A" >>, << << "x" >>, << "y" >> >>) \o << "\n" >> \o Line(<< "B" >>, << << "z" >> >>)

TextB == Line(<< "B" >>, << << "y" >> >>)

CronDaily == << "0", " ", "8", " ", "*", " ", "*", " ", "*" >>

CronWindow == << "2", ".", "5", "/", "9", "-", "2", "3" >>

CronBare == << "3" >>

Config(en, cr, once, nt, iv, chat, text) ==
    [enabled |-> en, cron |-> cr, onlyonce |-> once, notify |-> nt, interval_cnt |-> iv,
     chat_sites |-> chat, sites_messages |-> text]

\* The configurations the page submits in the concurrency model.
Configs ==
    { Config(TRUE, CronWindow, TRUE, TRUE, 2, << 1, 2 >>, TextAB),
      Config(TRUE, CronBare, FALSE, FALSE, 0, << 2, StaleId >>, TextB) }

\* The sites that get deleted in the concurrency model.
Deletable == {2}

\* The document __update_config writes, lines 152-164.
CurrentConfig(en, cr, once, nt, iv, chat, text) == << Config(en, cr, once, nt, iv, chat, text) >>

MaxTicks == 1

MaxDeleted == 1

MaxWaits == 1

\* The GroupChatZone and SiteChatRoom instances as constructed.
ZoneInit ==
    /\ enabled = FALSE /\ cron = << >> /\ onlyonce = FALSE /\ notify = FALSE
    /\ interval_cnt = 2 /\ chat_sites = << >> /\ sites_messages = << >>
    /\ start_time = << >> /\ end_time = << >>
    /\ lock = << "None" >> /\ running = FALSE
    /\ parsed_messages_cache = << >> /\ last_parse_time = 0
    /\ scheduler = "none" /\ saved_config = << >>
    /\ registry = SiteIds /\ now = 301
    /\ service = [form |-> "none", jobs |-> << >>, expr |-> << >>, raised |-> FALSE]
    /\ pc = [t \in Threads |-> "idle"]
    /\ loc = [t \in Threads |-> EmptyLoc]
    /\ snd = SndIdle
    /\ room = RoomInit

Init ==
    /\ ZoneInit
    /\ life = LifeNew("GroupChatZone")
    /\ lucky = LuckyInit
    /\ zhuque = ZhuqueInit

\* The host scheduler fires the registered job; the plugin's own scheduler
\* fires the run-once job it holds.
CanInvoke(t) ==
    /\ lock # << "None" >>
    /\ IF t = "once" THEN scheduler = "pending" ELSE service.jobs # << >>

\* stop_service, lines 996-1018, can return: with a scheduler of its own it
\* first waits for the guard (at most 10 s: timeout says the 10 s passed), and
\* shutdown() then joins the run-once job if that is executing.
StopCanReturn(timeout) ==
    \/ scheduler = "none"
    \/ (lock \in {<< >>, << "None" >>} \/ timeout) /\ pc["once"] = "idle"

\* Lines 999-1006: stop_service has spent the 10 s of its acquire(timeout=10)
\* without getting the lock.
StopWaited(timeout) ==
    scheduler # "none" /\ lock \notin {<< >>, << "None" >>} /\ timeout

\* The timed-out waits so far: the clock is 301 s per Tick plus 10 s per wait.
Waits == (now % 301) \div 10

\* stop_service
StopService(timeout) ==
    /\ StopCanReturn(timeout)
    /\ StopWaited(timeout) => Waits < MaxWaits
    /\ now' = IF StopWaited(timeout) THEN now + 10 ELSE now
    /\ scheduler' = "none"
    /\ parsed_messages_cache' = << >>
    /\ last_parse_time' = 0
    /\ UNCHANGED << cfgvars, start_time, end_time, lock, running, saved_config, registry,
                    service, pc, loc, snd, room, others >>

\* init_plugin(config), lines 80-147.
InitPlugin(cfg, timeout) ==
    LET chat == FilterSites(cfg.chat_sites, registry)
        preparse == cfg.enabled \/ cfg.onlyonce
    IN  /\ StopCanReturn(timeout)
        /\ StopWaited(timeout) => Waits < MaxWaits
        /\ now' = IF StopWaited(timeout) THEN now + 10 ELSE now
        /\ lock' = IF lock = << "None" >> THEN << >> ELSE lock
        /\ enabled' = cfg.enabled
        /\ cron' = cfg.cron
        /\ notify' = cfg.notify
        /\ interval_cnt' = ClampInterval(cfg.interval_cnt)
        /\ chat_sites' = chat
        /\ sites_messages' = cfg.sites_messages
        /\ parsed_messages_cache' =
               IF preparse THEN ParseSiteMessages(cfg.sites_messages, chat, registry) ELSE << >>
        /\ last_parse_time' = IF preparse THEN now' ELSE 0
        /\ scheduler' = IF cfg.onlyonce THEN "pending" ELSE "none"
        /\ onlyonce' = FALSE
        /\ saved_config' = CurrentConfig(enabled', cron', onlyonce', notify', interval_cnt',
                                         chat_sites', sites_messages')
        /\ UNCHANGED << start_time, end_time, running, registry, service, pc, loc, snd, room, others >>

\* get_service, called by the host to register the job.
GetService(minutes) ==
    LET r == GetServiceResult(minutes)
    IN  /\ lock # << "None" >>
        /\ service' = [form |-> r.form, jobs |-> r.jobs, expr |-> cron, raised |-> r.raised]
        /\ start_time' = r.start
        /\ end_time' = r.end
        /\ UNCHANGED << cfgvars, lock, running, parsed_messages_cache, last_parse_time,
                        scheduler, saved_config, registry, now, pc, loc, snd, room, others >>

\* __remove_site_id, lines 1032-1048: the list left, and whether the plugin
\* stays enabled.
RemoveSiteId(do_sites, site_id, en) ==
    LET left == SelectSeq(do_sites, LAMBDA id : id # site_id)
    IN  IF do_sites = << >> THEN [sites |-> do_sites, enabled |-> en]
        ELSE [sites |-> left, enabled |-> IF Len(left) = 0 THEN FALSE ELSE en]

\* A site is deleted from the registry and site_deleted handles the event,
\* lines 1020-1030.
SiteDeleted(site_id) ==
    /\ site_id \in registry
    /\ Cardinality(SiteIds \ registry) < MaxDeleted
    /\ registry' = registry \ {site_id}
    /\ IF saved_config = << >>
       THEN UNCHANGED << chat_sites, enabled, saved_config >>
       ELSE LET r == RemoveSiteId(saved_config[1].chat_sites, site_id, enabled)
            IN  /\ chat_sites' = r.sites
                /\ enabled' = r.enabled
                /\ saved_config' = CurrentConfig(r.enabled, cron, onlyonce, notify,
                                                 interval_cnt, r.sites, sites_messages)
    /\ UNCHANGED << cron, onlyonce, notify, interval_cnt, sites_messages, start_time, end_time,
                    lock, running, parsed_messages_cache, last_parse_time, scheduler,
                    now, service, pc, loc, snd, room, others >>

\* Time passes: more than the cache's five minutes.  Only the cache test of
\* line 565 reads the clock against an earlier reading, so the step is taken
\* right before it.
Tick ==
    /\ now < 301 * (MaxTicks + 1)
    /\ \E t \in Threads : pc[t] = "prepare"
    /\ now' = now + 301
    /\ UNCHANGED << cfgvars, start_time, end_time, lock, running, parsed_messages_cache,
                    last_parse_time, scheduler, saved_config, registry, service, pc, loc, snd, room, others >>

----------------------------------------------------------------------------
(* send_site_messages, lines 539-580, step by step for a job thread t.     *)

\* What the answers of a site to the run's requests can be: every request
\* succeeds, or every request is answered 503.
SiteAnswers == {"200", "503"}

\* Lines 543-548: the invocation starts with the window check, at local hour h.
CheckWindow(t, h) ==
    /\ pc[t] = "idle"
    /\ CanInvoke(t)
    /\ scheduler' = IF t = "once" THEN "started" ELSE scheduler
    /\ loc' = [loc EXCEPT ![t] = [EmptyLoc EXCEPT !.hour = << h >>,
                                                  !.window = << start_time, end_time >>]]
    /\ pc' = [pc EXCEPT ![t] = IF WindowAllows(start_time, end_time, h)
                               THEN "acquire" ELSE "skipped_window"]
    /\ UNCHANGED << cfgvars, start_time, end_time, lock, running, parsed_messages_cache,
                    last_parse_time, saved_config, registry, now, service, snd, room, others >>

\* An acquire that succeeds whoever holds the lock.
AcquireIgnoresHolder(l) == TRUE

\* Line 551: self._lock.acquire(blocking=False) succeeds on a free lock only.
AcquireNonBlocking(l) == l = << >>

\* Lines 551-556: the non-blocking acquire.
TryAcquire(t) ==
    /\ pc[t] = "acquire"
    /\ IF AcquireNonBlocking(lock)
       THEN /\ lock' = << t >>
            /\ running' = TRUE
            /\ pc' = [pc EXCEPT ![t] = "prepare"]
            /\ loc' = [loc EXCEPT ![t] = EmptyLoc]
       ELSE /\ pc' = [pc EXCEPT ![t] = "skipped_busy"]
            /\ UNCHANGED << lock, running, loc >>
    /\ UNCHANGED << cfgvars, start_time, end_time, parsed_messages_cache, last_parse_time,
                    scheduler, saved_config, registry, now, service, snd, room, others >>

\* Lines 557-566: the test of self._chat_sites, the text, the cache test and
\* parse_site_messages, whose result is not yet stored.  at_start keeps what
\* the run has read: the selected sites, and the parse or the cache it found.
Prepare(t) ==
    LET stale == CacheStale(parsed_messages_cache, last_parse_time, now)
        parsed == ParseSiteMessages(sites_messages, chat_sites, registry)
    IN  /\ pc[t] = "prepare"
        /\ IF chat_sites = << >>
           THEN /\ pc' = [pc EXCEPT ![t] = "release"]
                /\ loc' = loc
           ELSE /\ pc' = [pc EXCEPT ![t] = "call"]
                /\ loc' = [loc EXCEPT ![t] =
                              [EmptyLoc EXCEPT !.parsed = IF stale THEN << parsed >> ELSE << >>,
                                               !.current_time = now,
                                               !.at_start =
                                                  << [sites |-> chat_sites,
                                                      msgs |-> IF stale THEN parsed
                                                               ELSE parsed_messages_cache] >>]]
        /\ UNCHANGED << cfgvars, start_time, end_time, lock, running, parsed_messages_cache,
                        last_parse_time, scheduler, saved_config, registry, now, service, snd,
                        room, others >>

\* Lines 566-572 and 657-688: the parse is stored, __send_msgs is called with
\* self._chat_sites and self._parsed_messages_cache as they are now, and it
\* makes the run's site list and finds the first site with messages.
\* raises: the registry lookup of __send_msgs raises.
Call(t, raises) ==
    LET l == loc[t]
        cache == IF l.parsed # << >> THEN l.parsed[1] ELSE parsed_messages_cache
        l0 == [EmptyLoc EXCEPT !.do_sites = chat_sites, !.all_sites = registry,
                               !.site_msgs = cache, !.todo = FilterSites(chat_sites, registry)]
        l1 == EnterSite(l0, 1)
    IN  /\ pc[t] = "call"
        /\ parsed_messages_cache' = cache
        /\ last_parse_time' = IF l.parsed # << >> THEN l.current_time ELSE last_parse_time
        /\ IF raises
           THEN /\ loc' = [loc EXCEPT ![t] = [EmptyLoc EXCEPT !.exc = "raised"]]
                /\ pc' = [pc EXCEPT ![t] = "release"]
           ELSE IF l0.todo = << >>
           THEN /\ loc' = [loc EXCEPT ![t] = EmptyLoc]
                /\ pc' = [pc EXCEPT ![t] = "release"]
           ELSE /\ loc' = [loc EXCEPT ![t] = l1]
                /\ pc' = [pc EXCEPT ![t] = IF l1.si > Len(l1.todo) THEN "notify" ELSE "send"]
        /\ UNCHANGED << cfgvars, start_time, end_time, lock, running, scheduler, saved_config,
                        registry, now, service, snd, room, others >>

\* Lines 695-736: one message is dispatched; r is how the site answers.
Send(t, r) ==
    LET l == loc[t]
        n == Len(MessagesAt(l, l.si))
        l1 == AfterSend(l, SendMessageToSite(SiteInfo(l.todo[l.si]), r))
    IN  /\ pc[t] = "send"
        /\ loc' = [loc EXCEPT ![t] = l1]
        /\ pc' = [pc EXCEPT ![t] = IF SleepsAfter(l.mi, n) THEN "sleep"
                                   ELSE IF l1.si > Len(l1.todo) THEN "notify" ELSE "send"]
        /\ UNCHANGED << cfgvars, start_time, end_time, lock, running, parsed_messages_cache,
                        last_parse_time, scheduler, saved_config, registry, now, service, snd, room, others >>

\* Lines 724-727: the sleep between two messages of a site.
Sleep(t) ==
    LET l == loc[t]
    IN  /\ pc[t] = "sleep"
        /\ loc' = [loc EXCEPT ![t] =
                      [l EXCEPT !.mi = l.mi + 1,
                                !.log = Append(@, [k |-> "sleep", site |-> l.todo[l.si],
                                                   msg |-> << >>, ok |-> TRUE,
                                                   secs |-> ClampInterval(interval_cnt)])]]
        /\ pc' = [pc EXCEPT ![t] = "send"]
        /\ UNCHANGED << cfgvars, start_time, end_time, lock, running, parsed_messages_cache,
                        last_parse_time, scheduler, saved_config, registry, now, service, snd, room, others >>

\* A notification sent whether or not notifications are enabled.
PostedRegardless(posted, nt, text) == Append(posted, text)

\* Lines 739-740: the notifications of the run after the test of self._notify.
Posted(posted, nt, text) == IF nt THEN Append(posted, text) ELSE posted

\* Lines 738-749: the notification and the saved configuration.  raises:
\* post_message raises.
Notify(t, raises) ==
    LET l == loc[t]
        text == [total_sites |-> Len(l.todo), total_success |-> l.total_success,
                 total_failure |-> l.total_failure, site_results |-> l.site_results]
    IN  /\ pc[t] = "notify"
        /\ pc' = [pc EXCEPT ![t] = "release"]
        /\ IF notify /\ raises
           THEN /\ loc' = [loc EXCEPT ![t].exc = "raised"]
                /\ UNCHANGED saved_config
           ELSE /\ loc' = [loc EXCEPT ![t].posted = Posted(@, notify, text)]
                /\ saved_config' = CurrentConfig(enabled, cron, onlyonce, notify, interval_cnt,
                                                 chat_sites, sites_messages)
        /\ UNCHANGED << cfgvars, start_time, end_time, lock, running, parsed_messages_cache,
                        last_parse_time, scheduler, registry, now, service, snd, room, others >>

\* Lines 573-576: the except clause turns a raised exception into a logged one.
ExceptClause(e) == IF e = "raised" THEN "caught" ELSE e

\* A release at the end of the try block instead of in a finally clause.
FinallyLockInTry(t, e) == IF e = "raised" THEN << t >> ELSE << >>

\* Lines 577-580: what the finally clause leaves in the lock for holder t
\* after the try block ended with e.
FinallyLock(t, e) == << >>

\* Lines 573-580: the handler, the finally clause, the return.
Release(t) ==
    LET e == ExceptClause(loc[t].exc)
    IN  /\ pc[t] = "release"
        /\ running' = FALSE
        /\ lock' = FinallyLock(t, loc[t].exc)
        /\ pc' = [pc EXCEPT ![t] = IF e = "raised" THEN "propagated"
                                   ELSE IF e = "caught" THEN "caught" ELSE "done"]
        /\ UNCHANGED << cfgvars, start_time, end_time, parsed_messages_cache, last_parse_time,
                        scheduler, saved_config, registry, now, service, loc, snd, room, others >>

\* The call has returned; the thread waits for its next trigger.
Rearm(t) ==
    /\ pc[t] \in Returned
    /\ pc' = [pc EXCEPT ![t] = "idle"]
    /\ loc' = [loc EXCEPT ![t] = EmptyLoc]
    /\ UNCHANGED << cfgvars, start_time, end_time, lock, running, parsed_messages_cache,
                    last_parse_time, scheduler, saved_config, registry, now, service, snd, room, others >>

\* A returned call is observed and the thread rearmed before anything else
\* happens: no other step reads the difference.
Quiet == \A t \in Threads : pc[t] \notin Returned

Next ==
    \/ \E t \in Threads : Rearm(t)
    \/ Quiet /\ \E cfg \in Configs, timeout \in BOOLEAN : InitPlugin(cfg, timeout)
    \/ Quiet /\ \E timeout \in BOOLEAN : StopService(timeout)
    \/ Quiet /\ \E m \in {RandomMinInterval, RandomMaxInterval} : GetService(m)
    \/ Quiet /\ \E id \in Deletable : SiteDeleted(id)
    \/ Quiet /\ Tick
    \/ Quiet /\ \E t \in Threads, h \in Hours : CheckWindow(t, h)
    \/ Quiet /\ \E t \in Threads : TryAcquire(t)
    \/ Quiet /\ \E t \in Threads : Prepare(t)
    \/ Quiet /\ \E t \in Threads, raises \in BOOLEAN : Call(t, raises)
    \/ Quiet /\ \E t \in Threads, r \in SiteAnswers : Send(t, r)
    \/ Quiet /\ \E t \in Threads : Sleep(t)
    \/ Quiet /\ \E t \in Threads, raises \in BOOLEAN : Notify(t, raises)
    \/ Quiet /\ \E t \in Threads : Release(t)

Spec == Init /\ [][Next]_vars

----------------------------------------------------------------------------
(* The schedule resolver on its own: configurations and get_service calls. *)

CronEmpty == << >>

CronBareFraction == << "2", ".", "5" >>

CronBareSmall == << "0", ".", "0", "5" >>

CronBareTenth == << "0", ".", "1" >>

CronBareZero == << "0" >>

CronBareNegative == << "-", "1" >>

CronBarePadded == << " ", "3", " " >>

CronWindowNight == << "2", "/", "2", "2", "-", "6" >>

CronWindowEdge == << "1", "/", "0", "-", "2", "3" >>

CronWindowOut == << "1", "/", "0", "-", "2", "4" >>

CronWindowHalf == << "2", "/", "5", "-", "x" >>

CronWindowNoHours == << "x", "/", "9", "-", "2", "3" >>

CronWindowNoEnd == << "2", "/", "9" >>

CronWindowZeroHours == << "0", "/", "9", "-", "2", "3" >>

CronText == << "x" >>

CronBadDaily == << "6", "1", " ", "8", " ", "*", " ", "*", " ", "*" >>

CronSpaced == << "2", " ", "/", " ", "9", " ", "-", " ", "2", "3" >>

\* The schedule texts of the resolver model.  Numbers have at most two
\* fraction digits.
Schedules ==
    { CronEmpty, CronDaily, CronWindow, CronBare,
      CronBareFraction, CronBareSmall, CronBareTenth, CronBareZero,
      CronBareNegative, CronBarePadded, CronWindowNight, CronWindowEdge,
      CronWindowOut, CronWindowHalf, CronWindowNoHours, CronWindowNoEnd,
      CronWindowZeroHours, CronText, CronBadDaily, CronSpaced }

ResolveConfigs ==
    { Config(en, c, FALSE, FALSE, 2, << 1 >>, << >>) : en \in BOOLEAN, c \in Schedules }

NextResolve ==
    \/ \E cfg \in ResolveConfigs : InitPlugin(cfg, FALSE)
    \/ \E m \in {RandomMinInterval, RandomMaxInterval} : GetService(m)

SpecResolve == Init /\ [][NextResolve]_vars

----------------------------------------------------------------------------
(* One send_message_to_site call on its own, request by request.           *)

\* send_message_to_site(site, message) is called.
SndCall(id) ==
    /\ snd.pc = "idle"
    /\ snd' = SndStart(SiteInfo(id))
    /\ UNCHANGED << cfgvars, start_time, end_time, lock, running, parsed_messages_cache,
                    last_parse_time, scheduler, saved_config, registry, now, service, pc, loc, room, others >>

\* One HTTP request of the call is answered by r.
SndAnswer(r) ==
    /\ snd.pc = "request"
    /\ snd' = SndRequest(snd, r)
    /\ UNCHANGED << cfgvars, start_time, end_time, lock, running, parsed_messages_cache,
                    last_parse_time, scheduler, saved_config, registry, now, service, pc, loc, room, others >>

\* The call has returned or raised; the next call can begin.
SndDone ==
    /\ snd.pc \in {"returned", "raised"}
    /\ snd' = SndIdle
    /\ UNCHANGED << cfgvars, start_time, end_time, lock, running, parsed_messages_cache,
                    last_parse_time, scheduler, saved_config, registry, now, service, pc, loc, room, others >>

NextSend ==
    \/ \E id \in SiteIds : SndCall(id)
    \/ \E r \in Responses : SndAnswer(r)
    \/ SndDone

SpecSend == Init /\ [][NextSend]_vars

----------------------------------------------------------------------------
(* One configuration and the runs of the host scheduler's job alone.       *)

TextABC ==
    Line(<< "A" >>, << << "x" >>, << "y" >>, << "z" >> >>) \o << "\n" >>
      \o Line(<< "B" >>, << << "x" >>, << "y" >>, << "z" >> >>) \o << "\n" >>
      \o Line(<< "C" >>, << << "z" >> >>)

TextMessy ==
    Line(<< " ", "A", " " >>, << << " ", "x" >>, << " " >>, << "y", " " >> >>) \o << "\n" >>
      \o << "B" >> \o << "\n" >> \o Line(<< "D" >>, << << "x" >> >>) \o << "\n" >>
      \o Line(<< "C" >>, << << "z" >> >>)

RunConfigs ==
    { Config(TRUE, CronBare, FALSE, TRUE, 2, << 1, 2, 3 >>, TextABC),
      Config(TRUE, CronBare, FALSE, FALSE, 20, << 4, 2, StaleId, 1 >>, TextMessy),
      Config(TRUE, CronWindow, FALSE, TRUE, 0, << 3, 1 >>, TextMessy),
      Config(TRUE, CronBare, FALSE, FALSE, -3, << 2 >>, TextABC) }

NextRun ==
    \/ Rearm("job")
    \/ Quiet /\ saved_config = << >> /\ \E cfg \in RunConfigs : InitPlugin(cfg, FALSE)
    \/ Quiet /\ \E m \in {RandomMinInterval} : GetService(m)
    \/ Quiet /\ \E h \in Hours : CheckWindow("job", h)
    \/ Quiet /\ TryAcquire("job")
    \/ Quiet /\ Prepare("job")
    \/ Quiet /\ \E raises \in BOOLEAN : Call("job", raises)
    \/ Quiet /\ \E r \in SiteAnswers : Send("job", r)
    \/ Quiet /\ Sleep("job")
    \/ Quiet /\ \E raises \in BOOLEAN : Notify("job", raises)
    \/ Quiet /\ Release("job")

SpecRun == Init /\ [][NextRun]_vars

----------------------------------------------------------------------------
(* SiteChatRoom as a state machine: configurations, get_service calls and  *)
(* invocations of send_chat_messages.                                      *)

\* The GroupChatZone instance, which SiteChatRoom does not touch.
zonevars == << enabled, cron, onlyonce, notify, interval_cnt, chat_sites, sites_messages,
               start_time, end_time, lock, running, parsed_messages_cache, last_parse_time,
               scheduler, saved_config, now, service, pc, loc, snd >>

\* config.get("site_messages"): a list of lines "name|m1|m2".
RoomLinesAB == << Line(<< "A" >>, << << "x" >>, << "y" >> >>), Line(<< "B" >>, << << "z" >> >>) >>

RoomLinesBare == << << "A" >>, Line(<< "B" >>, << << "z" >> >>) >>

RoomConfig(en, c, once, chat, lines) ==
    [enabled |-> en, cron |-> c, onlyonce |-> once, chat_sites |-> chat, site_messages |-> lines]

\* The configurations the page submits.
RoomConfigs ==
    { RoomConfig(TRUE, CronWindow, FALSE, << 2, 1 >>, RoomLinesAB),
      RoomConfig(TRUE, CronWindowEdge, TRUE, << StaleId, 2 >>, RoomLinesBare),
      RoomConfig(TRUE, CronWindowHalf, FALSE, << 2, 1 >>, RoomLinesBare),
      RoomConfig(TRUE, CronBare, FALSE, << 1 >>, RoomLinesAB),
      RoomConfig(TRUE, CronEmpty, FALSE, << 3 >>, RoomLinesAB),
      RoomConfig(FALSE, CronDaily, TRUE, << 2, 1 >>, RoomLinesAB),
      RoomConfig(TRUE, CronDaily, FALSE, << >>, RoomLinesAB) }

\* What TimerUtils.random_scheduler(num_executions=2, ...) can return: up to
\* two times of day, as <<hour, minute>>.
RoomTriggers == { << >>, << << 11, 0 >> >>, << << 11, 0 >>, << 15, 30 >> >> }

RoomEvents == {"none", "send_chat_messages", "other"}

\* init_plugin, lines 77-130: stop_service drops a pending run-once job, the
\* configuration is taken over with the selected sites filtered, and
\* onlyonce schedules one run of send_chat_messages of the plugin's own.
RoomInitPlugin(cfg) ==
    /\ room' = [room EXCEPT !.enabled = cfg.enabled,
                            !.cron = cfg.cron,
                            !.chat_sites = RoomFilterSites(cfg.chat_sites, registry),
                            !.site_messages = cfg.site_messages,
                            !.once = cfg.onlyonce]
    /\ UNCHANGED << zonevars, registry, others >>

\* The host calls get_service and registers what it returns.
RoomGetServiceCall(triggers) ==
    /\ LET g == RoomGetService(room, triggers)
       IN  room' = [room EXCEPT !.jobs = g.jobs,
                                !.start_time = g.start_time,
                                !.end_time = g.end_time]
    /\ UNCHANGED << zonevars, registry, others >>

\* The host scheduler fires the registered job at hour h.
RoomJobFires(h, ev) ==
    /\ room.jobs # << >>
    /\ room' = [room EXCEPT !.sent = << [hour |-> h, event |-> ev, cron |-> room.cron,
                                         start_time |-> room.start_time,
                                         end_time |-> room.end_time,
                                         calls |-> RoomSendChatMessages(room, ev, registry)] >>]
    /\ UNCHANGED << zonevars, registry, others >>

\* The plugin's own scheduler fires the run-once job at hour h.
RoomOnceFires(h) ==
    /\ room.once
    /\ room' = [room EXCEPT !.once = FALSE,
                            !.sent = << [hour |-> h, event |-> "none", cron |-> room.cron,
                                         start_time |-> room.start_time,
                                         end_time |-> room.end_time,
                                         calls |-> RoomSendChatMessages(room, "none", registry)] >>]
    /\ UNCHANGED << zonevars, registry, others >>

NextRoom ==
    \/ \E cfg \in RoomConfigs : RoomInitPlugin(cfg)
    \/ \E triggers \in RoomTriggers : RoomGetServiceCall(triggers)
    \/ \E h \in Hours, ev \in RoomEvents : RoomJobFires(h, ev)
    \/ \E h \in Hours : RoomOnceFires(h)

SpecRoom == Init /\ [][NextRoom]_vars

----------------------------------------------------------------------------
(* parse_site_messages on its own: a text block, a selection, one call.    *)

\* The lines of the text blocks: well formed, padded and with an empty
\* message, without a separator, for a site that may not be selected, with
\* blank messages only, blank, and without a name.
ParseLinesPool ==
    { Line(<< "A" >>, << << "x" >>, << "y" >> >>),
      Line(<< " ", "A", " " >>, << << " ", "y" >>, << >>, << "x", " " >> >>),
      Line(<< "B" >>, << << "z" >> >>),
      << "B" >>,
      Line(<< "C" >>, << << "z" >> >>),
      Line(<< "A" >>, << << " " >> >>),
      << " " >>,
      Line(<< >>, << << "x" >> >>) }

MaxLines == 3

RECURSIVE JoinLines(_)
JoinLines(ls) ==
    IF Len(ls) = 0 THEN << >>
    ELSE IF Len(ls) = 1 THEN ls[1]
    ELSE ls[1] \o << "\n" >> \o JoinLines(Tail(ls))

\* The text blocks: up to MaxLines lines of the pool, and the empty text.
ParseTexts ==
    { JoinLines(ls) : ls \in UNION { [1..n -> ParseLinesPool] : n \in 0..MaxLines } }

\* The selections: sites with and without lines, and an id the registry
\* does not have.
ParseSelections == { << 1, 2 >>, << 2 >>, << 3, 1 >>, << StaleId, 1 >> }

InitParse ==
    /\ enabled = TRUE /\ cron = << >> /\ onlyonce = FALSE /\ notify = FALSE
    /\ interval_cnt = 2
    /\ chat_sites \in ParseSelections
    /\ sites_messages \in ParseTexts
    /\ start_time = << >> /\ end_time = << >>
    /\ lock = << >> /\ running = FALSE
    /\ parsed_messages_cache = << >> /\ last_parse_time = 0
    /\ scheduler = "none" /\ saved_config = << >>
    /\ registry = SiteIds /\ now = 301
    /\ service = [form |-> "none", jobs |-> << >>, expr |-> << >>, raised |-> FALSE]
    /\ pc = [t \in Threads |-> "idle"]
    /\ loc = [t \in Threads |-> EmptyLoc]
    /\ snd = SndIdle
    /\ room = RoomInit
    /\ life = LifeNew("GroupChatZone")
    /\ lucky = LuckyInit
    /\ zhuque = ZhuqueInit

\* Lines 566-567: self._parsed_messages_cache = self.parse_site_messages(text).
ParseCall ==
    /\ parsed_messages_cache' = ParseSiteMessages(sites_messages, chat_sites, registry)
    /\ last_parse_time' = now
    /\ UNCHANGED << cfgvars, start_time, end_time, lock, running, scheduler, saved_config,
                    registry, now, service, pc, loc, snd, room, others >>

NextParse == ParseCall

SpecParse == InitParse /\ [][NextParse]_vars

----------------------------------------------------------------------------
(* One plugin instance through configuration, reload and teardown.         *)

\* The variables of the chat plugins, idle here.
chatvars == << zonevars, registry, room >>

LifeConfigs == { LifeConfig(en, cr, once) : en \in BOOLEAN, cr \in BOOLEAN, once \in BOOLEAN }

MaxSchedulers == 3

InitLife ==
    /\ ZoneInit
    /\ life \in { LifeNew(p) : p \in Plugins }
    /\ lucky = LuckyInit
    /\ zhuque = ZhuqueInit

\* The page submits a configuration: the host saves it and calls init_plugin
\* with it.
LifePage(cfg) ==
    /\ life.made < MaxSchedulers
    /\ life' = [LifeInitPlugin([life EXCEPT !.stored = << cfg >>], << cfg >>)
                   EXCEPT !.last = "page"]
    /\ UNCHANGED << chatvars, lucky, zhuque >>

\* The host calls init_plugin with the persisted configuration.
LifeReload ==
    /\ life.made < MaxSchedulers
    /\ life' = [LifeInitPlugin(life, life.stored) EXCEPT !.last = "reload"]
    /\ UNCHANGED << chatvars, lucky, zhuque >>

\* The host calls stop_service.
LifeStopService ==
    /\ life' = [StopScheduler(life) EXCEPT !.last = "stop"]
    /\ UNCHANGED << chatvars, lucky, zhuque >>

\* The run-once job of a running scheduler fires.
LifeOnceFires(s) ==
    /\ s \in life.pending \cap life.started
    /\ life' = [life EXCEPT !.pending = @ \ {s}, !.last = "fire"]
    /\ UNCHANGED << chatvars, lucky, zhuque >>

NextLife ==
    \/ \E cfg \in LifeConfigs : LifePage(cfg)
    \/ LifeReload
    \/ LifeStopService
    \/ \E s \in 1..(MaxSchedulers + 1) : LifeOnceFires(s)

SpecLife == InitLife /\ [][NextLife]_vars

----------------------------------------------------------------------------
(* LuckyHelper with backup files in its directory.                         *)

MaxFiles == 3

MaxKeep == 3

MaxBackups == 3

LuckyKeys == { API_TOKEN, "guess", "" }

\* The retention counts of the page: none, or the text of a number.
LuckyCounts == { << >> } \cup { << k >> : k \in 0..MaxKeep }

InitLucky ==
    /\ ZoneInit
    /\ life = LifeNew("LuckyHelper")
    /\ lucky \in { [LuckyInit EXCEPT !.files = 1..n, !.ctime = n, !.cnt = c, !.notify = nt] :
                      n \in 0..MaxFiles, c \in LuckyCounts, nt \in BOOLEAN }
    /\ zhuque = ZhuqueInit

\* The job of the scheduler runs __backup.
LuckyBackup(outcome, matches) ==
    /\ lucky.runs < MaxBackups
    /\ lucky' = Backup(lucky, outcome, matches)
    /\ UNCHANGED << chatvars, life, zhuque >>

\* A client calls the /backup endpoint.
LuckyApiBackup(apikey, outcome, matches) ==
    /\ lucky.runs < MaxBackups
    /\ lucky.calls < MaxBackups
    /\ lucky' = ApiBackup(lucky, apikey, outcome, matches)
    /\ UNCHANGED << chatvars, life, zhuque >>

NextLucky ==
    \/ \E outcome \in LuckyOutcomes, matches \in BOOLEAN : LuckyBackup(outcome, matches)
    \/ \E apikey \in LuckyKeys, outcome \in LuckyOutcomes, matches \in BOOLEAN :
          LuckyApiBackup(apikey, outcome, matches)

SpecLucky == InitLucky /\ [][NextLucky]_vars

----------------------------------------------------------------------------
(* ZhuqueHelper over several days.                                         *)

MaxSignins == 3

MaxDays == 3

\* The values of history_days on the page.
HistoryDays == { << 0 >>, << 1 >>, << 2 >> }

InitZhuque ==
    /\ ZoneInit
    /\ life = LifeNew("ZhuqueHelper")
    /\ lucky = LuckyInit
    /\ zhuque \in { [ZhuqueInit EXCEPT !.cookie = c, !.notify = nt, !.history_days = d] :
                       c \in BOOLEAN, nt \in BOOLEAN, d \in HistoryDays }

\* The job runs __signin.
ZhuqueSignin(course, info) ==
    /\ zhuque.runs < MaxSignins
    /\ zhuque' = Signin(zhuque, course, info)
    /\ UNCHANGED << chatvars, life, lucky >>

\* A day passes.
ZhuqueDay ==
    /\ zhuque.today < MaxDays
    /\ zhuque' = [zhuque EXCEPT !.today = @ + 1]
    /\ UNCHANGED << chatvars, life, lucky >>

NextZhuque ==
    \/ \E course \in SigninCourses, info \in UserInfos : ZhuqueSignin(course, info)
    \/ ZhuqueDay

SpecZhuque == InitZhuque /\ [][NextZhuque]_vars

----------------------------------------------------------------------------
(* The run guard and the execution window, under Spec.                     *)

\* C1: under every interleaving of the host scheduler's job and the run-once
\* job, at most one invocation of send_site_messages is between acquiring and
\* releasing the run guard.
AtMostOneInDispatch == Cardinality({t \in Threads : pc[t] \in Section}) <= 1

\* One job is dispatching while the other has passed the window check and is
\* about to try the guard.
AtMostOneInDispatchWitness ==
    \E t, u \in Threads : t # u /\ pc[t] = "send" /\ pc[u] = "acquire"

\* C2: an invocation that acquired the run guard has released it when it
\* returns, and returns normally (no exception propagates) whether the dispatch
\* succeeded, partly failed or raised; the guard is held exactly while its
\* acquirer is between acquire and release, so no other invocation releases it.
GuardReleasedOnReturn ==
    \A t \in Threads :
        /\ (lock = << t >>) <=> (pc[t] \in Section)
        /\ pc[t] # "propagated"
        /\ pc[t] \in Returned => lock # << t >>

\* An invocation whose try block raised has returned with the exception
\* logged and the guard free.
GuardReleasedOnReturnWitness ==
    \E t \in Threads : pc[t] = "caught" /\ lock = << >> /\ running = FALSE

\* C3: an invocation that finds the run guard held is a no-op: it returns at
\* once as skipped, with the guard, the running flag, the run results, the
\* notifications, the parsed-message cache, the configuration and the saved
\* configuration all unchanged, and the skipped invocation leaves nothing
\* behind that would run later.
BusyInvocationIsNoOp ==
    [][\A t \in Threads :
          /\ (pc[t] = "acquire" /\ lock # << >> /\ pc'[t] # "acquire") =>
                /\ pc'[t] = "skipped_busy"
                /\ UNCHANGED << cfgvars, start_time, end_time, lock, running,
                                parsed_messages_cache, last_parse_time, scheduler,
                                saved_config, registry, now, service, loc, snd >>
          /\ pc[t] = "skipped_busy" =>
                /\ pc'[t] = "idle"
                /\ loc'[t] = EmptyLoc
                /\ UNCHANGED << cfgvars, start_time, end_time, lock, running,
                                parsed_messages_cache, last_parse_time, scheduler,
                                saved_config, registry, now, service, snd >>
      ]_vars

\* An invocation has been skipped as busy while the other job holds the guard
\* in the middle of its dispatch.
BusyInvocationIsNoOpWitness ==
    \E t, u \in Threads :
        /\ pc[t] = "skipped_busy" /\ loc[t].log = << >> /\ loc[t].posted = << >>
        /\ pc[u] = "sleep" /\ lock = << u >>

\* The hour and the window an invocation read at its window check.
HourOf(t) == loc[t].hour[1]

WindowSetFor(t) == loc[t].window[1] # << >> /\ loc[t].window[2] # << >>

InsideWindow(t) == loc[t].window[1][1] <= HourOf(t) /\ HourOf(t) <= loc[t].window[2][1]

\* C4: with a window (start, end) set, an invocation at hour h goes on to the
\* guard and the dispatch only if start <= h <= end, both ends included; at an
\* hour outside the window it returns as skipped with no dispatch call and
\* without taking the guard; and the dispatch section is entered only by an
\* invocation that passed the check.
WindowRespected ==
    /\ [](\A t \in Threads :
            /\ (pc[t] = "acquire" /\ WindowSetFor(t)) => InsideWindow(t)
            /\ pc[t] = "skipped_window" =>
                  /\ WindowSetFor(t) /\ ~InsideWindow(t)
                  /\ lock # << t >>
                  /\ loc[t].log = << >> /\ loc[t].posted = << >>)
    /\ [][\A t \in Threads :
            /\ (pc'[t] \in Section /\ pc[t] \notin Section) => pc[t] = "acquire"
            /\ pc[t] = "skipped_window" => pc'[t] = "idle" /\ UNCHANGED lock
        ]_vars

\* With the window (9, 23): one invocation at hour 23, the inclusive end, has
\* passed the check, and one at hour 5 has been skipped.
WindowRespectedWitness ==
    \E t, u \in Threads :
        /\ pc[t] = "acquire" /\ loc[t].window = << << 9 >>, << 23 >> >> /\ HourOf(t) = 23
        /\ pc[u] = "skipped_window" /\ loc[u].window = << << 9 >>, << 23 >> >> /\ HourOf(u) = 5

----------------------------------------------------------------------------
(* The dispatch loop of one run, under SpecRun.                            *)

\* What a run log shows of each entry: a dispatch call or a sleep, the site,
\* the message.
Shape(log) == [i \in 1..Len(log) |-> << log[i].k, log[i].site, log[i].msg >>]

\* n dispatch calls with a sleep between every two of them.
CallsWithSleepsBetween(id, msgs) ==
    [i \in 1..(2 * Len(msgs) - 1) |->
        IF i % 2 = 1 THEN << "send", id, msgs[(i + 1) \div 2] >> ELSE << "sleep", id, << >> >>]

\* The same for the sites of a run from position i on; a site with no
\* messages has no calls.
RECURSIVE ExpectedFrom(_, _)
ExpectedFrom(l, i) ==
    IF i > Len(l.todo) THEN << >>
    ELSE (IF MessagesAt(l, i) = << >> THEN << >>
          ELSE CallsWithSleepsBetween(l.todo[i], MessagesAt(l, i)))
         \o ExpectedFrom(l, i + 1)

IsPrefix(a, b) == Len(a) <= Len(b) /\ a = SubSeq(b, 1, Len(a))

\* The run of t is past its dispatch loop.
LoopOver(t) == pc[t] \in {"notify", "release", "done", "caught"}

\* C5: for a site with n messages a run issues exactly n dispatch calls, with
\* a sleep between every two consecutive calls, whether the earlier one
\* succeeded or failed, and none after the n-th: at every instant the run log
\* is a prefix of that sequence, and it is the whole sequence once the loop
\* is over.
ExactCallsSleepBetween ==
    \A t \in Threads :
        /\ IsPrefix(Shape(loc[t].log), ExpectedFrom(loc[t], 1))
        /\ LoopOver(t) => Shape(loc[t].log) = ExpectedFrom(loc[t], 1)

\* Site A with three messages: the loop is over, the log is three calls with
\* two sleeps between them and then the later sites, and the first call failed.
ExactCallsSleepBetweenWitness ==
    LET log == loc["job"].log
    IN  /\ pc["job"] = "notify"
        /\ Len(log) >= 6
        /\ Shape(SubSeq(log, 1, 5)) =
              << << "send", 1, << "x" >> >>, << "sleep", 1, << >> >>,
                 << "send", 1, << "y" >> >>, << "sleep", 1, << >> >>,
                 << "send", 1, << "z" >> >> >>
        /\ log[6].k = "send" /\ log[6].site # 1
        /\ ~log[1].ok

\* The messages of the dispatch calls of the log for site id, and of the
\* failed ones.
SentOf(log, id) ==
    LET e == SelectSeq(log, LAMBDA x : x.k = "send" /\ x.site = id)
    IN  [i \in 1..Len(e) |-> e[i].msg]

FailedOf(log, id) ==
    LET e == SelectSeq(log, LAMBDA x : x.k = "send" /\ x.site = id /\ ~x.ok)
    IN  [i \in 1..Len(e) |-> e[i].msg]

\* C6: a message whose dispatch failed (all attempts failed, or the call
\* raised) is in the failed-message list of its site, and the failure stops
\* nothing: every finished site has had all its messages attempted, whatever
\* failed before, and its result holds exactly its failed messages.
FailuresRecordedRunContinues ==
    \A t \in Threads :
        LET l == loc[t]
        IN  /\ pc[t] \in {"send", "sleep"} =>
                  l.failed_messages = FailedOf(l.log, l.todo[l.si])
            /\ \A i \in 1..Len(l.todo) :
                  (i < l.si /\ MessagesAt(l, i) # << >>) =>
                      /\ SentOf(l.log, l.todo[i]) = MessagesAt(l, i)
                      /\ Get(l.site_results, SiteInfo(l.todo[i]).name) # << >>
                      /\ Get(l.site_results, SiteInfo(l.todo[i]).name).failed_messages
                            = FailedOf(l.log, l.todo[i])
                      /\ Get(l.site_results, SiteInfo(l.todo[i]).name).failure_count
                            = Len(FailedOf(l.log, l.todo[i]))

\* Message y of site B failed, message z of B was sent after it, site C was
\* attempted after B, and B's result names y as failed.
FailuresRecordedRunContinuesWitness ==
    LET l == loc["job"]
    IN  /\ pc["job"] = "notify"
        /\ \E i, j, k \in 1..Len(l.log) :
              /\ i < j /\ j < k
              /\ l.log[i].k = "send" /\ l.log[i].site = 2 /\ l.log[i].msg = << "y" >> /\ ~l.log[i].ok
              /\ l.log[j].k = "send" /\ l.log[j].site = 2 /\ l.log[j].msg = << "z" >> /\ l.log[j].ok
              /\ l.log[k].k = "send" /\ l.log[k].site = 3
        /\ Get(l.site_results, << "B" >>).failed_messages = << << "y" >> >>

----------------------------------------------------------------------------
(* One send_message_to_site call, under SpecSend.                          *)

\* C7: one call makes at most 3 HTTP requests in all, waits 1 s and then 2 s
\* between them and not after the last, and ends by returning on a successful
\* request or by raising.
AtMostThreeRequests ==
    /\ snd.requests <= 3
    /\ IsPrefix(snd.sleeps, << 1, 2 >>)
    /\ snd.pc = "returned" => snd.last = "200"
    /\ (snd.pc = "raised" /\ snd.requests > 0) => Len(snd.sleeps) = 2

\* What the retry policy names: a connection error, a timeout, a status of
\* the forcelist.
Retriable == StatusForcelist \cup {"conn", "timeout"}

\* C8: a dispatch is tried again only after a connection error, a timeout or
\* a status of {403, 404, 500, 502, 503, 504}; after any other failure (a 401,
\* say) the call is over.
RetriesOnlyListedFailures ==
    /\ snd.retried_on \subseteq Retriable
    /\ (snd.last \notin Retriable \cup {"none", "200"}) => snd.pc = "raised"

----------------------------------------------------------------------------
(* The schedule resolver, under SpecResolve.                               *)

\* The last get_service call found the plugin enabled.
ResolvedEnabled == service.form \notin {"none", "disabled"}

\* The forms of a schedule text, in the resolver's order of priority.
FiveField(e) == Count(Strip(e), " ") = 4

WindowForm(e) ==
    LET p == Split(Strip(e), "/")
        w == Split(p[2], "-")
    IN  /\ ~FiveField(e)
        /\ Len(p) = 2 /\ ParseFloat(p[1]).ok
        /\ Len(w) = 2 /\ ParseInt(w[1]).ok /\ ParseInt(w[2]).ok
        /\ ParseInt(w[1]).val \in 0..23 /\ ParseInt(w[2]).val \in 0..23

BareNumber(e) ==
    ~FiveField(e) /\ Count(e, "/") = 0 /\ ParseFloat(e).ok

\* A five-field cron expression gives one cron trigger of that expression.
CronFormResolved ==
    (FiveField(service.expr) /\ FromCrontabOk(service.expr)) =>
        service.jobs = << [id |-> "GroupChatZone", trigger |-> "crontab", hours |-> 0,
                           expr |-> service.expr] >>

\* "<hours>/<start>-<end>" gives one interval trigger of <hours> hours and
\* the window (start, end).
WindowFormResolved ==
    WindowForm(service.expr) =>
        LET p == Split(Strip(service.expr), "/")
            w == Split(p[2], "-")
        IN  /\ service.jobs = << [id |-> "GroupChatZone", trigger |-> "interval",
                                  hours |-> ParseFloat(p[1]).val, expr |-> << >>] >>
            /\ start_time = << ParseInt(w[1]).val >>
            /\ end_time = << ParseInt(w[2]).val >>

\* The bare number h (in hundredths of an hour) gives one interval trigger
\* of h hours.
BareResolvedAs(h) ==
    service.jobs = << [id |-> "GroupChatZone", trigger |-> "interval", hours |-> h,
                       expr |-> << >>] >>

\* C9 as amended: for an enabled plugin, a five-field cron expression gives
\* one cron trigger; "<hours>/<start>-<end>" with start and end in 0..23 gives
\* one interval trigger of <hours> hours and the window (start, end), so
\* "2.5/9-23" gives 2.5 hours with (9, 23); a bare number of at least 0.1
\* gives one interval trigger of that many hours, and a bare positive number
\* below 0.1 gives one of 0.1 hours.
ResolvedByForm ==
    ResolvedEnabled =>
        /\ CronFormResolved
        /\ WindowFormResolved
        /\ service.expr = CronWindow =>
              BareResolvedAs(250) /\ start_time = << 9 >> /\ end_time = << 23 >>
        /\ (BareNumber(service.expr) /\ ParseFloat(service.expr).val >= 10) =>
              BareResolvedAs(ParseFloat(service.expr).val)
        /\ (BareNumber(service.expr) /\ ParseFloat(service.expr).val > 0
                                     /\ ParseFloat(service.expr).val < 10) =>
              BareResolvedAs(10)

\* "0.05" has been resolved to an interval of 0.1 hours.
ResolvedByFormWitness ==
    /\ ResolvedEnabled
    /\ service.expr = CronBareSmall
    /\ BareResolvedAs(10)

\* C9 as stated: as above, but every bare positive number gives one interval
\* trigger of that many hours.
ResolvedByFormAsStated ==
    ResolvedEnabled =>
        /\ CronFormResolved
        /\ WindowFormResolved
        /\ (BareNumber(service.expr) /\ ParseFloat(service.expr).val > 0) =>
              BareResolvedAs(ParseFloat(service.expr).val)

\* C10: whenever the schedule resolved last is a five-field cron expression
\* or a bare number, no window restricts runs: an invocation at any hour
\* passes the window check, whatever was configured and resolved before.
NoWindowForCronOrBare ==
    (ResolvedEnabled /\ service.jobs # << >>
       /\ ((FiveField(service.expr) /\ FromCrontabOk(service.expr)) \/ BareNumber(service.expr))) =>
        \A h \in 0..23 : WindowAllows(start_time, end_time, h)

WindowShape(e) ==
    LET p == Split(Strip(e), "/")
        w == Split(p[2], "-")
    IN  /\ ~FiveField(e)
        /\ Len(p) = 2 /\ ParseFloat(p[1]).ok
        /\ Len(w) = 2 /\ ParseInt(w[1]).ok /\ ParseInt(w[2]).ok

\* A schedule text that is not empty and has none of the accepted forms.
Unparseable(e) ==
    /\ e # << >>
    /\ ~(FiveField(e) /\ FromCrontabOk(e))
    /\ ~WindowShape(e)
    /\ ~BareNumber(e)

\* C12: for an enabled plugin a schedule text that is not empty and has none
\* of the accepted forms falls through to the random fallback: the resolver
\* returns one random daily trigger with its hour between 9 and 23.
UnparseableFallsBackToRandom ==
    (ResolvedEnabled /\ Unparseable(service.expr)) =>
        /\ Len(service.jobs) = 1
        /\ service.jobs[1].trigger = "cron"
        /\ service.jobs[1].expr[1] \in 9..23

\* C13: get_service never raises to its caller: for every schedule text, a
\* five-field text that is no cron expression and a malformed interval or
\* window among them, it returns a list of jobs, which may be empty.
GetServiceNeverRaises ==
    /\ ~service.raised
    /\ Len(service.jobs) \in {0, 1}
    /\ (ResolvedEnabled /\ FiveField(service.expr) /\ ~FromCrontabOk(service.expr)) =>
          service.jobs = << >>

\* A five-field text CronTrigger.from_crontab rejects has been resolved, and
\* the call returned the empty list.
GetServiceNeverRaisesWitness ==
    /\ ResolvedEnabled /\ service.expr = CronBadDaily
    /\ ~service.raised /\ service.jobs = << >>

----------------------------------------------------------------------------
(* The site filter, under SpecRun.                                         *)

\* The positions of list whose id the registry reg has, and the k-th of them.
KeptPositions(list, reg) == {j \in 1..Len(list) : list[j] \in reg}

KthKept(list, reg, k) ==
    CHOOSE j \in KeptPositions(list, reg) :
        Cardinality({i \in KeptPositions(list, reg) : i <= j}) = k

\* out is list without the ids absent from reg, the others in their order.
ExactlyTheKnown(out, list, reg) ==
    /\ Len(out) = Cardinality(KeptPositions(list, reg))
    /\ \A k \in 1..Len(out) : out[k] = list[KthKept(list, reg, k)]

\* C14: the site filter removes from the selected ids exactly those absent
\* from the registry and keeps the others in their configured order, and
\* filtering the result again against the same registry changes nothing.  It
\* is applied to the configured list by init_plugin and to the run's list by
\* __send_msgs.
FilterExactAndIdempotent ==
    /\ \A i \in 1..Len(chat_sites) : chat_sites[i] \in registry
    /\ FilterSites(chat_sites, registry) = chat_sites
    /\ \A t \in Threads :
          /\ ExactlyTheKnown(loc[t].todo, loc[t].do_sites, loc[t].all_sites)
          /\ FilterSites(loc[t].todo, loc[t].all_sites) = loc[t].todo

\* A run whose configured list held an id of no site: the id is gone from the
\* run's sites and the other three are there in their order.
FilterExactAndIdempotentWitness ==
    /\ loc["job"].do_sites = << 4, 2, 1 >>
    /\ loc["job"].todo = << 4, 2, 1 >>
    /\ saved_config # << >> /\ saved_config[1].chat_sites = << 4, 2, 1 >>
    /\ pc["job"] = "send"

----------------------------------------------------------------------------
(* Teardown and notification, under Spec.                                  *)

\* C15: when stop_service is called while a run holds the run guard, the
\* parsed-message cache is cleared only after the 10 s of the bounded wait have
\* passed (a wait that ended because the guard became free is a call made
\* with the guard free), and the call leaves the guard as it found it.
StopWaitsForGuard ==
    [][((\E t \in Threads : lock = << t >>)
          /\ pc' = pc
          /\ parsed_messages_cache # << >> /\ parsed_messages_cache' = << >>) =>
            (now' >= now + 10 /\ lock' = lock)
      ]_vars

\* The run of t is past the notification step of __send_msgs.
PastNotification(t) == pc[t] \in {"release", "done", "caught"}

\* C16: a run with at least one site to process emits exactly one
\* notification when notifications are enabled and none when they are
\* disabled (none either when post_message itself raises); the notification
\* is emitted in one step that comes after every dispatch call of the run and
\* in which the run holds the run guard before and after.
OneNotificationBeforeRelease ==
    /\ [](\A t \in Threads :
            /\ ~PastNotification(t) => loc[t].posted = << >>
            /\ Len(loc[t].posted) <= 1
            /\ (PastNotification(t) /\ loc[t].todo # << >>) =>
                  Shape(loc[t].log) = ExpectedFrom(loc[t], 1))
    /\ [][\A t \in Threads :
            /\ (pc[t] = "notify" /\ pc'[t] # "notify") =>
                  /\ pc'[t] = "release" /\ lock = << t >> /\ lock' = << t >>
                  /\ loc[t].todo # << >> /\ loc'[t].log = loc[t].log
                  /\ Len(loc'[t].posted) = IF notify /\ loc'[t].exc = "none" THEN 1 ELSE 0
            /\ (pc[t] # "notify" /\ loc'[t].posted # loc[t].posted) => loc'[t].posted = << >>
        ]_vars

\* A run has dispatched its messages and emitted its one notification, and
\* still holds the guard.
OneNotificationBeforeReleaseWitness ==
    /\ pc["job"] = "release" /\ lock = << "job" >>
    /\ notify /\ Len(loc["job"].posted) = 1
    /\ Len(loc["job"].log) = 11

\* C17: handling the deletion of a site only takes the site out of the
\* selected sites; it never changes the enabled flag, in the plugin or in the
\* saved configuration, not even when the last selected site is deleted.
SiteDeletedNeverDisables ==
    [][registry' # registry =>
          /\ enabled' = enabled
          /\ (saved_config # << >> => saved_config'[1].enabled = saved_config[1].enabled)
          /\ chat_sites' = SelectSeq(chat_sites, LAMBDA id : id \in registry')
      ]_vars

----------------------------------------------------------------------------
(* Sites without the required information, and the sleep, under SpecRun.   *)

\* The result the run has recorded for the site at position i of its list.
ResultAt(l, i) == Get(l.site_results, SiteInfo(l.todo[i]).name)

\* C18: a site of the run that lacks a name, a URL, a cookie or a user agent
\* is skipped: no HTTP request is made for it, none of its messages is
\* recorded as a success or as a failure, and the other sites are processed.
MissingInfoSiteSkipped ==
    \A t \in Threads :
        LET l == loc[t]
        IN  \A i \in 1..Len(l.todo) :
                MissingInfo(SiteInfo(l.todo[i])) =>
                    /\ \A r \in Responses : Drive(SndStart(SiteInfo(l.todo[i])), r).requests = 0
                    /\ (i < l.si /\ ResultAt(l, i) # << >>) =>
                          /\ ResultAt(l, i).success_count = 0
                          /\ ResultAt(l, i).failure_count = 0
                          /\ ResultAt(l, i).failed_messages = << >>
                    /\ PastNotification(t) =>
                          \A j \in 1..Len(l.todo) :
                              j # i => SentOf(l.log, l.todo[j]) = MessagesAt(l, j)

\* The sleeps of a run log, in seconds.
SleepsOf(log) ==
    LET e == SelectSeq(log, LAMBDA x : x.k = "sleep")
    IN  [i \in 1..Len(e) |-> e[i].secs]

\* C19: whatever integer the configuration gives as interval_cnt (0, a
\* negative one and one above 10 among them), every sleep between two
\* messages lasts at least 1 and at most 10 seconds, and the stored interval
\* is in that range too.
SleepWithinOneToTen ==
    /\ interval_cnt \in 1..10
    /\ \A t \in Threads :
          \A i \in 1..Len(SleepsOf(loc[t].log)) : SleepsOf(loc[t].log)[i] \in 1..10

\* Runs configured with interval_cnt = 20 have slept 10 seconds.
SleepWithinOneToTenWitness ==
    /\ saved_config # << >> /\ interval_cnt = 10
    /\ pc["job"] = "notify"
    /\ SleepsOf(loc["job"].log) = << 10 >>

----------------------------------------------------------------------------
(* The execution window of SiteChatRoom, under SpecRoom.                   *)

\* The window "<hours>/<start>-<end>" names, as (start, end).
WindowOf(e) ==
    LET w == Split(Split(Strip(e), "/")[2], "-")
    IN  << ParseInt(w[1]).val, ParseInt(w[2]).val >>

\* The last invocation ran under a schedule of the window form that
\* get_service had resolved, at an hour outside its window.
RoomOutsideWindow ==
    /\ room.sent # << >>
    /\ WindowForm(room.sent[1].cron)
    /\ room.sent[1].start_time = << WindowOf(room.sent[1].cron)[1] >>
    /\ room.sent[1].end_time = << WindowOf(room.sent[1].cron)[2] >>
    /\ WindowOf(room.sent[1].cron)[1] <= WindowOf(room.sent[1].cron)[2]
    /\ ~(/\ WindowOf(room.sent[1].cron)[1] <= room.sent[1].hour
         /\ room.sent[1].hour <= WindowOf(room.sent[1].cron)[2])

\* C20: for SiteChatRoom configured with a schedule "<hours>/<start>-<end>",
\* an invocation of send_chat_messages at an hour outside [start, end]
\* dispatches no message.
RoomWindowRespected ==
    RoomOutsideWindow => room.sent[1].calls = << >>

----------------------------------------------------------------------------
(* Reconfiguration during a run, under Spec.                               *)

\* C21: the targets and the messages a run dispatches are fixed when the run
\* starts: __send_msgs gets the selected sites and the messages the run read
\* at its start, whatever init_plugin, stop_service or site_deleted did in
\* between, and from then on they do not change until the run ends.
RunListsFixedAtStart ==
    /\ [][\A t \in Threads :
            (pc[t] = "call" /\ pc'[t] \in {"send", "notify"}) =>
                /\ loc'[t].do_sites = loc[t].at_start[1].sites
                /\ loc'[t].site_msgs = loc[t].at_start[1].msgs]_vars
    /\ [][\A t \in Threads :
            (pc[t] \in {"send", "sleep"} /\ pc'[t] \in {"send", "sleep", "notify"}) =>
                /\ loc'[t].do_sites = loc[t].do_sites
                /\ loc'[t].site_msgs = loc[t].site_msgs
                /\ loc'[t].todo = loc[t].todo]_vars

----------------------------------------------------------------------------
(* The order of a run and its counts, under SpecRun.                       *)

\* The dispatch calls of a run log in order, as <<site id, message>>.
Dispatched(log) ==
    LET e == SelectSeq(log, LAMBDA x : x.k = "send")
    IN  [i \in 1..Len(e) |-> << e[i].site, e[i].msg >>]

\* The messages the text configures for the site called name: the non-empty
\* trimmed pieces after the name, of the last of its lines that has any.
ConfiguredMessages(text, name) ==
    LET lines == Split(Strip(text), "\n")
        Pieces(i) == Split(lines[i], "|")
        Msgs(i) == SelectSeq([k \in 1..(Len(Pieces(i)) - 1) |-> Strip(Pieces(i)[k + 1])],
                             LAMBDA m : m # << >>)
        mine == {i \in 1..Len(lines) : Strip(Pieces(i)[1]) = name /\ Msgs(i) # << >>}
    IN  IF mine = {} THEN << >> ELSE Msgs(CHOOSE i \in mine : \A j \in mine : j <= i)

\* The calls the configuration asks for: site by site in the order of
\* chat_sites from position i on, each site's messages in the order of its
\* line, nothing for a site that is gone or has no messages.
RECURSIVE ConfiguredOrder(_)
ConfiguredOrder(i) ==
    IF i > Len(chat_sites) THEN << >>
    ELSE LET id == chat_sites[i]
             msgs == IF id \in registry
                     THEN ConfiguredMessages(sites_messages, SiteInfo(id).name) ELSE << >>
         IN  [k \in 1..Len(msgs) |-> << id, msgs[k] >>] \o ConfiguredOrder(i + 1)

\* C22: a run processes the targets in the configured order of chat_sites and
\* each target's messages in their configured order, all messages of one
\* target before the first of the next, and a target without messages is
\* skipped without a dispatch call: the calls made so far are always the
\* beginning of the configured sequence, and all of it when the loop is done.
ConfiguredOrderKept ==
    \A t \in Threads :
        /\ IsPrefix(Dispatched(loc[t].log), ConfiguredOrder(1))
        /\ pc[t] = "notify" => Dispatched(loc[t].log) = ConfiguredOrder(1)

\* chat_sites = [4, 2, 5, 1], kept by init_plugin as [4, 2, 1], with lines for
\* A, D and C and a line without messages for B: the finished run called D,
\* then A with x before y, and never B.
ConfiguredOrderKeptWitness ==
    /\ pc["job"] = "notify"
    /\ chat_sites = << 4, 2, 1 >>
    /\ Dispatched(loc["job"].log) =
          << << 4, << "x" >> >>, << 1, << "x" >> >>, << 1, << "y" >> >> >>

RECURSIVE SumSuccess(_)
SumSuccess(results) ==
    IF results = << >> THEN 0 ELSE Head(results)[2].success_count + SumSuccess(Tail(results))

RECURSIVE SumFailure(_)
SumFailure(results) ==
    IF results = << >> THEN 0 ELSE Head(results)[2].failure_count + SumFailure(Tail(results))

\* The sites of the run's list that have messages configured.
Processed(l) ==
    SelectSeq(l.todo, LAMBDA id : ConfiguredMessages(sites_messages, SiteInfo(id).name) # << >>)

\* The per-site counts of results and the totals add up.
CountsAddUp(results, total_success, total_failure) ==
    /\ \A i \in 1..Len(results) :
          /\ results[i][2].success_count + results[i][2].failure_count
                = Len(ConfiguredMessages(sites_messages, results[i][1]))
          /\ Len(results[i][2].failed_messages) = results[i][2].failure_count
    /\ total_success = SumSuccess(results)
    /\ total_failure = SumFailure(results)

\* C23: at the end of a run every processed target has a result, its
\* success_count + failure_count is the number of its messages and its
\* failed-message list is failure_count long, and total_success and
\* total_failure, as counted and as reported in the notification, are the sums
\* of the per-target counts.
RunCountsAddUp ==
    \A t \in Threads :
        /\ pc[t] = "notify" =>
              /\ [i \in 1..Len(loc[t].site_results) |-> loc[t].site_results[i][1]]
                    = [i \in 1..Len(Processed(loc[t])) |-> SiteInfo(Processed(loc[t])[i]).name]
              /\ CountsAddUp(loc[t].site_results, loc[t].total_success, loc[t].total_failure)
        /\ \A k \in 1..Len(loc[t].posted) :
              CountsAddUp(loc[t].posted[k].site_results, loc[t].posted[k].total_success,
                          loc[t].posted[k].total_failure)

\* A notified run over three sites with successes and failures on both sides.
RunCountsAddUpWitness ==
    /\ pc["job"] = "release"
    /\ Len(loc["job"].posted) = 1
    /\ Len(loc["job"].posted[1].site_results) = 3
    /\ loc["job"].posted[1].total_success = 4
    /\ loc["job"].posted[1].total_failure = 3
    /\ \E i \in 1..3 : /\ loc["job"].posted[1].site_results[i][2].success_count = 2
                       /\ loc["job"].posted[1].site_results[i][2].failure_count = 1

----------------------------------------------------------------------------
(* parse_site_messages, under SpecParse.                                   *)

\* The names of the selected sites the registry has.
SelectedNames == {SiteInfo(id).name : id \in {chat_sites[i] : i \in 1..Len(chat_sites)} \cap registry}

Trimmed(m) == m # << >> /\ Head(m) \notin Whitespace /\ m[Len(m)] \notin Whitespace

\* C24: for every text block parse_site_messages returns a mapping whose
\* keys are names of selected sites, each once, and whose value for a site is
\* the non-empty trimmed messages of the site's line in their order (of its
\* last such line when it has several); every selected site with such a line
\* is a key, whatever other lines - without a separator, for an unselected
\* site, without a non-empty message - stand beside it.
ParseReturnsSelectedTrimmed ==
    last_parse_time # 0 =>
        LET result == parsed_messages_cache
        IN  /\ \A i, j \in 1..Len(result) : result[i][1] = result[j][1] => i = j
            /\ \A i \in 1..Len(result) :
                  /\ result[i][1] \in SelectedNames
                  /\ result[i][2] # << >>
                  /\ \A k \in 1..Len(result[i][2]) : Trimmed(result[i][2][k])
                  /\ result[i][2] = ConfiguredMessages(sites_messages, result[i][1])
            /\ \A name \in SelectedNames :
                  ConfiguredMessages(sites_messages, name) # << >> =>
                      \E i \in 1..Len(result) : result[i][1] = name

\* A padded line for A between a line without separator and a line for the
\* unselected C: only A is returned, with y before x, trimmed.
ParseReturnsSelectedTrimmedWitness ==
    /\ last_parse_time # 0
    /\ chat_sites = << 1, 2 >>
    /\ sites_messages = JoinLines(<< << "B" >>,
                                     Line(<< " ", "A", " " >>, << << " ", "y" >>, << >>, << "x", " " >> >>),
                                     Line(<< "C" >>, << << "z" >> >>) >>)
    /\ parsed_messages_cache = << << << "A" >>, << << "y" >>, << "x" >> >> >> >>

----------------------------------------------------------------------------
(* The parse a run uses, under Spec.                                       *)

\* C25: a run dispatches messages parsed from the sites_messages text that is
\* current when the run starts: what the run takes at its start, a fresh
\* parse or the cache, gives every site the messages of the current text, so
\* a cached parse of a superseded configuration is never used.
RunUsesCurrentText ==
    [][\A t \in Threads :
          (pc[t] = "prepare" /\ pc'[t] = "call") =>
              \A i \in 1..Len(loc'[t].at_start[1].msgs) :
                  loc'[t].at_start[1].msgs[i][2]
                     = ConfiguredMessages(sites_messages, loc'[t].at_start[1].msgs[i][1])]_vars

----------------------------------------------------------------------------
(* The run-once switch and the plugin's scheduler, under SpecLife.         *)

\* C26: in every plugin, a step that schedules an immediate run leaves
\* onlyonce = false in the persisted configuration, and an init_plugin called
\* with the persisted configuration schedules no immediate run.
OnlyOnceConsumed ==
    /\ [][life'.runs > life.runs =>
            (life'.stored # << >> /\ ~life'.stored[1].onlyonce)]_vars
    /\ [][life'.runs > life.runs => life'.last = "page"]_vars

\* C27: after any sequence of init_plugin and stop_service calls on one
\* plugin instance at most one scheduler of the plugin is running, a running
\* scheduler is the one the instance holds (every earlier one was shut down
\* by the init_plugin or stop_service that followed it), and after
\* stop_service the instance holds no scheduler and none is running.
OneSchedulerAtMost ==
    /\ Cardinality(life.started) <= 1
    /\ life.started \subseteq {life.scheduler}
    /\ life.last = "stop" => (life.scheduler = 0 /\ life.started = {})

\* A later init_plugin has started a scheduler in the place of an earlier
\* one.
OneSchedulerAtMostWitness ==
    /\ life.made >= 2
    /\ life.last \in {"page", "reload"}
    /\ life.scheduler = life.made
    /\ life.started = {life.scheduler}

----------------------------------------------------------------------------
(* LuckyHelper's endpoint and clean-up, under SpecLucky.                   *)

\* C28: api_backup called with an apikey different from the host API token
\* returns the failure response and does no backup: no request is sent to the
\* backup API, no file is written, no backup file is deleted, and nothing is
\* notified.
WrongKeyDoesNothing ==
    [][(lucky'.calls > lucky.calls /\ lucky'.key # API_TOKEN) =>
          /\ lucky'.reply = "refused"
          /\ lucky'.requests = lucky.requests
          /\ lucky'.written = lucky.written
          /\ lucky'.files = lucky.files
          /\ lucky'.removed = lucky.removed
          /\ lucky'.posted = lucky.posted
          /\ lucky'.runs = lucky.runs]_vars

\* A call with a wrong key has been refused while the directory holds more
\* files than the retention count keeps.
WrongKeyDoesNothingWitness ==
    /\ lucky.reply = "refused"
    /\ lucky.key = "guess"
    /\ lucky.cnt # << >>
    /\ Cardinality(lucky.files) > lucky.cnt[1]

\* C29: after __backup has run with a retention count k and n matching files
\* present, the files deleted are the max(0, n - k) oldest, and a
\* notification of the run reports as cleaned up the number of files deleted
\* (never a negative number) and as remaining the number of files left.
CleanupCountsExact ==
    (lucky.run # << >> /\ lucky.run[1].cnt # << >>) =>
        LET r == lucky.run[1]
            n == Cardinality(r.present)
            k == r.cnt[1]
            d == IF n > k THEN n - k ELSE 0
        IN  /\ r.deleted = SubSeq(SortedByCtime(r.present), 1, d)
            /\ r.noticed =>
                  LET notice == lucky.posted[Len(lucky.posted)]
                  IN  /\ notice.cleaned = Len(r.deleted)
                      /\ notice.cleaned >= 0
                      /\ notice.left = n - Len(r.deleted)

----------------------------------------------------------------------------
(* ZhuqueHelper's execution records, under SpecZhuque.                     *)

\* C30: a run of __signin changes the stored history or sends a notification
\* only if the cookie is set and the CSRF token, the user name, the balance
\* and the minimum level were all obtained; a run that aborts earlier leaves
\* the history as it was and sends nothing; and after a successful save every
\* stored record is no older than history_days and the last one is the new
\* record.
RecordOnlyAfterSuccess ==
    [][zhuque'.runs > zhuque.runs =>
          LET r == zhuque'.run[1]
              through == r.reached \in {"save_raises", "complete"}
              stored == zhuque'.history
          IN  /\ (stored # zhuque.history \/ zhuque'.posted # zhuque.posted) =>
                    /\ zhuque.cookie
                    /\ through
                    /\ r.info.bonus # << >> /\ r.info.min_level # << >>
              /\ ~through => (stored = zhuque.history /\ zhuque'.posted = zhuque.posted)
              /\ r.reached = "complete" =>
                    /\ \A i \in 1..Len(stored) :
                          zhuque.today - stored[i].date <= zhuque.history_days[1]
                    /\ stored # << >>
                    /\ stored[Len(stored)].date = zhuque.today]_vars
====
